---- MODULE Spec2Model ----
(***************************************************************************)
(* Modelo del modulo control_calidad: registro, actualizacion y borrado de  *)
(* lotes procesados (LoteProcesado) y el flujo de envio del informe PDF     *)
(* encriptado (generar -> derivar clave -> encriptar -> enviar).            *)
(*                                                                         *)
(* Cada peticion HTTP ocupa una ranura de Solicitudes.  Las vistas que     *)
(* hacen varios accesos a la base de datos o al transporte de correo se    *)
(* parten en un paso por acceso, de modo que dos peticiones concurrentes   *)
(* se entrelazan como lo hacen dos workers del servidor.                   *)
(*                                                                         *)
(* Los porcentajes son enteros (unidades de 1 %); None y la ausencia de    *)
(* fila se representan con valores centinela.  De los campos del lote que  *)
(* ninguna regla del modulo lee (tipo_grano, fecha_procesamiento,          *)
(* cantidad_kg, creado_en) solo se conserva observaciones como             *)
(* representante de "los demas campos persistidos".                        *)
(*                                                                         *)
(* Ademas: encriptar_con_cedula llamada directamente (SpecCifrado), la     *)
(* lista y creacion de sensores (SpecSensores), el panel HTML con sesion   *)
(* (SpecPanel) y el registro publico de usuarios y clientes (SpecUsuarios).*)
(***************************************************************************)
EXTENDS Integers, Sequences, FiniteSets, TLC

VARIABLES
    lotes,      \* tabla LoteProcesado: pk -> fila o Ausente
    nextId,     \* siguiente pk autoincremental
    sol,        \* ranura -> estado local de la peticion que la ocupa
    enviosOk,   \* historia: pk -> numero de email.send() que terminaron bien
    iniciadas,  \* numero de peticiones recibidas hasta ahora
    sensores,   \* tabla Sensor: secuencia de filas, el id es la posicion
    usuarios,   \* tabla Usuario: secuencia de filas, el id es la posicion
    clientes,   \* tabla Cliente: secuencia de filas, el id es la posicion
    sesiones    \* navegadores con sesion iniciada: navegador -> id de usuario

vars == <<lotes, nextId, sol, enviosOk, iniciadas, sensores, usuarios, clientes, sesiones>>

\* Estado de control_calidad y estado de las demas aplicaciones
calidad == <<lotes, nextId, enviosOk>>
portal == <<sensores, usuarios, clientes, sesiones>>

----------------------------------------------------------------------------
(* Cotas del modelo *)

MaxLotes == 2        \* filas que se llegan a crear
NumSolicitudes == 2  \* peticiones concurrentes
MaxEnvios == 2       \* tope del contador historico de envios por lote
MaxPeticiones == 4   \* peticiones que llegan en una ejecucion
MaxSensores == 3     \* filas de Sensor que se llegan a crear
MaxUsuarios == 2     \* filas de Usuario que se llegan a crear

Solicitudes == 1..NumSolicitudes

----------------------------------------------------------------------------
(* Valores centinela *)

None == -1                   \* None de Python / NULL de SQL en un Decimal
Nulo == [nulo |-> TRUE]      \* variable local sin valor
Ausente == [ausente |-> TRUE] \* no hay fila con ese pk

----------------------------------------------------------------------------
(* Clientes: el usuario al que apunta lote.cliente.  La vista lee cedula   *)
(* con getattr(cliente, 'cedula', None), de modo que el atributo puede     *)
(* faltar (SinAtributo), estar vacio o tener valor; email puede ser vacio. *)

SinAtributo == <<"sin-atributo">>
CedulaVacia == <<>>
Ced123 == <<"C", "E", "D", "1", "2", "3">>
Ced456 == <<"C", "E", "D", "4", "5", "6">>

Clientes == 1..5

cedula(c) ==
    CASE c = 1 -> Ced123
      [] c = 2 -> SinAtributo
      [] c = 3 -> CedulaVacia
      [] c = 4 -> Ced456
      [] c = 5 -> SinAtributo

email(c) ==
    CASE c = 1 -> "c1@agro"
      [] c = 2 -> "c2@agro"
      [] c = 3 -> "c3@agro"
      [] c = 4 -> ""
      [] c = 5 -> ""

\* Variante que solo mira si el atributo existe
TieneCedulaSoloAtributo(c) == cedula(c) # SinAtributo

\* getattr(cliente, 'cedula', None): el atributo ausente se lee como None,
\* y None y la cadena vacia son ambos falsos para `not`.
TieneCedula(c) == cedula(c) # SinAtributo /\ cedula(c) # CedulaVacia

\* Variante que da por buena cualquier direccion
TieneCorreoSiempre(c) == TRUE

\* email_destino = getattr(lote.cliente, 'email', None); if not email_destino
TieneCorreo(c) == email(c) # ""

----------------------------------------------------------------------------
(* Codigo de lote: cadenas como secuencias de caracteres *)

EsEspacio(ch) == ch = " "

RECURSIVE LStrip(_)
LStrip(s) == IF s # <<>> /\ EsEspacio(Head(s)) THEN LStrip(Tail(s)) ELSE s

RECURSIVE RStrip(_)
RStrip(s) ==
    IF s # <<>> /\ EsEspacio(s[Len(s)]) THEN RStrip(SubSeq(s, 1, Len(s) - 1)) ELSE s

\* str.strip()
Strip(s) == RStrip(LStrip(s))

UpperChar(ch) ==
    CASE ch = "l" -> "L"
      [] ch = "a" -> "A"
      [] OTHER -> ch

\* str.upper()
Upper(s) == [k \in 1..Len(s) |-> UpperChar(s[k])]

\* LoteProcesadoSerializer.validate_codigo_lote
validate_codigo_lote(value) == Upper(Strip(value))

----------------------------------------------------------------------------
(* LoteProcesado.save(): derivacion del porcentaje que falta *)

RECURSIVE SumaFiltrada(_)
\* sum(filter(None, xs)): descarta None y 0 y suma el resto
SumaFiltrada(xs) ==
    IF xs = <<>> THEN 0
    ELSE (IF Head(xs) = None \/ Head(xs) = 0 THEN 0 ELSE Head(xs))
         + SumaFiltrada(Tail(xs))

Max(a, b) == IF a >= b THEN a ELSE b

\* Variante sin el piso max(0, ...)
CalcularPorcentajesSinPiso(l) ==
    IF l.grano_defectuoso = None /\ l.grano_bueno # None
    THEN [l EXCEPT !.grano_defectuoso =
            100 - SumaFiltrada(<<l.humedad, l.impurezas, l.grano_bueno>>)]
    ELSE IF l.grano_bueno = None /\ l.grano_defectuoso # None
    THEN [l EXCEPT !.grano_bueno =
            100 - SumaFiltrada(<<l.humedad, l.impurezas, l.grano_defectuoso>>)]
    ELSE l

CalcularPorcentajes(l) ==
    IF l.grano_defectuoso = None /\ l.grano_bueno # None
    THEN [l EXCEPT !.grano_defectuoso =
            Max(0, 100 - SumaFiltrada(<<l.humedad, l.impurezas, l.grano_bueno>>))]
    ELSE IF l.grano_bueno = None /\ l.grano_defectuoso # None
    THEN [l EXCEPT !.grano_bueno =
            Max(0, 100 - SumaFiltrada(<<l.humedad, l.impurezas, l.grano_defectuoso>>))]
    ELSE l

----------------------------------------------------------------------------
(* Filas y datos de peticion *)

\* Fila nueva con los valores por defecto del modelo
FilaPorDefecto ==
    [cliente |-> 1, codigo_lote |-> <<>>, humedad |-> None, impurezas |-> None,
     grano_bueno |-> None, grano_defectuoso |-> None,
     observaciones |-> "", enviado |-> FALSE]

\* Campos que el serializador acepta de la peticion (enviado es read_only)
CamposEscribibles ==
    {"cliente", "codigo_lote", "humedad", "impurezas",
     "grano_bueno", "grano_defectuoso", "observaciones"}

CamposRequeridos == {"cliente", "codigo_lote", "humedad", "impurezas"}

\* data.get(campo, defecto)
Dato(d, campo, defecto) == IF campo \in d.presentes THEN d[campo] ELSE defecto

\* getattr(self.instance, campo, None)
DeInstancia(inst, campo) == IF inst = Nulo THEN None ELSE inst[campo]

EnRango(v) == 0 <= v /\ v <= 100

\* UniqueValidator de codigo_lote: otra fila (distinta de la instancia) con
\* exactamente ese valor
CodigoEnUso(tabla, codigo, pkPropio) ==
    \E k \in DOMAIN tabla :
        /\ k # pkPropio
        /\ tabla[k] # Ausente
        /\ tabla[k].codigo_lote = codigo

\* Validacion campo a campo (to_internal_value): requeridos, rangos, blanco
\* y unicidad.  El validador de unicidad corre sobre el valor ya recortado
\* por CharField pero antes de validate_codigo_lote.
CamposValidos(tabla, d, parcial, pkPropio) ==
    /\ (~parcial => CamposRequeridos \subseteq d.presentes)
    /\ ("cliente" \in d.presentes => d.cliente \in Clientes)
    /\ ("codigo_lote" \in d.presentes =>
            /\ Strip(d.codigo_lote) # <<>>
            /\ ~CodigoEnUso(tabla, Strip(d.codigo_lote), pkPropio))
    /\ ("humedad" \in d.presentes => d.humedad # None /\ EnRango(d.humedad))
    /\ ("impurezas" \in d.presentes => d.impurezas # None /\ EnRango(d.impurezas))
    /\ ("grano_bueno" \in d.presentes =>
            d.grano_bueno = None \/ EnRango(d.grano_bueno))
    /\ ("grano_defectuoso" \in d.presentes =>
            d.grano_defectuoso = None \/ EnRango(d.grano_defectuoso))

\* Variante que solo mira los porcentajes que trae la peticion
validateSoloPeticion(d, inst) ==
    LET h == Dato(d, "humedad", None)
        i == Dato(d, "impurezas", None)
        b == Dato(d, "grano_bueno", None)
        g == Dato(d, "grano_defectuoso", None)
    IN  (None \notin {h, i, b, g}) => (h + i + b + g <= 100)

\* LoteProcesadoSerializer.validate: suma de los cuatro porcentajes, tomando
\* de la instancia los que la peticion no trae
validate(d, inst) ==
    LET h == Dato(d, "humedad", DeInstancia(inst, "humedad"))
        i == Dato(d, "impurezas", DeInstancia(inst, "impurezas"))
        b == Dato(d, "grano_bueno", DeInstancia(inst, "grano_bueno"))
        g == Dato(d, "grano_defectuoso", DeInstancia(inst, "grano_defectuoso"))
    IN  (None \notin {h, i, b, g}) => (h + i + b + g <= 100)

\* serializer.is_valid()
is_valid(tabla, d, inst, parcial, pkPropio) ==
    /\ CamposValidos(tabla, d, parcial, pkPropio)
    /\ validate(d, inst)

\* validated_data aplicado sobre una fila base: solo los campos escribibles
\* presentes, con el codigo normalizado
AplicarDatos(base, d) ==
    [campo \in DOMAIN base |->
        IF campo \in CamposEscribibles /\ campo \in d.presentes
        THEN (IF campo = "codigo_lote"
              THEN validate_codigo_lote(Strip(d.codigo_lote))
              ELSE d[campo])
        ELSE base[campo]]

\* Restriccion unique=True de la columna codigo_lote
ViolaUnique(tabla, fila, pkPropio) == CodigoEnUso(tabla, fila.codigo_lote, pkPropio)

----------------------------------------------------------------------------
(* Respuestas y estado local de una peticion *)

\* Response(cuerpo, status): texto es el campo "error" o "mensaje" del cuerpo
Respuesta(st, txt, det) == [status |-> st, texto |-> txt, detalle |-> det]

SolLibre ==
    [pc |-> "libre", op |-> "ninguna", num |-> 0, pk |-> 0, lote |-> Nulo, datos |-> Nulo,
     pdf |-> Nulo, token |-> Nulo, etapas |-> <<>>, mensaje |-> Nulo,
     resp |-> Nulo]

\* La peticion termino: quedan sus datos, la respuesta y la traza de etapas
Terminar(s, r) ==
    [s EXCEPT !.pc = "fin", !.lote = Nulo, !.pdf = Nulo, !.token = Nulo, !.resp = r]

\* Estado local de una peticion recien recibida: num es su numero de orden
Nueva(op, pk, d) ==
    [SolLibre EXCEPT !.op = op, !.num = iniciadas + 1, !.pk = pk, !.datos = d]

Disponible(r) == sol[r].pc \in {"libre", "fin"}

\* Llega una peticion nueva y la atiende la primera ranura disponible
Recibir(r) ==
    /\ Disponible(r)
    /\ \A q \in Solicitudes : q < r => ~Disponible(q)
    /\ iniciadas < MaxPeticiones
    /\ iniciadas' = iniciadas + 1

\* get_object_or_404
Existe(pk) == pk \in DOMAIN lotes /\ lotes[pk] # Ausente

----------------------------------------------------------------------------
(* Vistas CRUD *)

\* registrar_lote (POST): is_valid + serializer.save() -> Model.save()
RegistrarLote(r, d, maxLotes) ==
    /\ Recibir(r)
    /\ UNCHANGED portal
    /\ LET nueva == Nueva("registrar", nextId, d)
           fila == CalcularPorcentajes(AplicarDatos(FilaPorDefecto, d))
       IN  IF ~is_valid(lotes, d, Nulo, FALSE, 0)
           THEN /\ sol' = [sol EXCEPT ![r] = Terminar(nueva, Respuesta(400, "validacion", ""))]
                /\ UNCHANGED <<lotes, nextId>>
           ELSE IF ViolaUnique(lotes, fila, 0)
           THEN /\ sol' = [sol EXCEPT ![r] = Terminar(nueva, Respuesta(500, "IntegrityError", ""))]
                /\ UNCHANGED <<lotes, nextId>>
           ELSE /\ nextId <= maxLotes
                /\ lotes' = [lotes EXCEPT ![nextId] = fila]
                /\ nextId' = nextId + 1
                /\ sol' = [sol EXCEPT ![r] = Terminar(nueva, Respuesta(201, "", ""))]
    /\ UNCHANGED enviosOk

\* actualizar_lote, primera parte: get_object_or_404 carga la instancia
ActualizarCargar(r, pk, d) ==
    /\ Recibir(r)
    /\ UNCHANGED portal
    /\ LET nueva == Nueva("actualizar", pk, d)
       IN  IF ~Existe(pk)
           THEN sol' = [sol EXCEPT ![r] = Terminar(nueva, Respuesta(404, "no encontrado", ""))]
           ELSE sol' = [sol EXCEPT ![r] =
                    [nueva EXCEPT !.pc = "guardar", !.lote = lotes[pk]]]
    /\ UNCHANGED <<lotes, nextId, enviosOk>>

\* actualizar_lote, segunda parte: is_valid + serializer.save().  El save()
\* sin update_fields escribe todos los campos de la instancia cargada; si la
\* fila ya no existe el ORM la inserta con el mismo pk.
ActualizarGuardar(r) ==
    /\ sol[r].pc = "guardar"
    /\ UNCHANGED <<iniciadas, portal>>
    /\ LET s == sol[r]
           d == s.datos
           fila == CalcularPorcentajes(AplicarDatos(s.lote, d))
       IN  IF ~is_valid(lotes, d, s.lote, d.metodo = "PATCH", s.pk)
           THEN /\ sol' = [sol EXCEPT ![r] = Terminar(s, Respuesta(400, "validacion", ""))]
                /\ UNCHANGED lotes
           ELSE IF ViolaUnique(lotes, fila, s.pk)
           THEN /\ sol' = [sol EXCEPT ![r] = Terminar(s, Respuesta(500, "IntegrityError", ""))]
                /\ UNCHANGED lotes
           ELSE /\ lotes' = [lotes EXCEPT ![s.pk] = fila]
                /\ sol' = [sol EXCEPT ![r] = Terminar(s, Respuesta(200, "", ""))]
    /\ UNCHANGED <<nextId, enviosOk>>

\* eliminar_lote (DELETE)
EliminarLote(r, pk) ==
    /\ Recibir(r)
    /\ UNCHANGED portal
    /\ LET nueva == Nueva("eliminar", pk, Nulo)
       IN  IF ~Existe(pk)
           THEN /\ sol' = [sol EXCEPT ![r] = Terminar(nueva, Respuesta(404, "no encontrado", ""))]
                /\ UNCHANGED lotes
           ELSE /\ lotes' = [lotes EXCEPT ![pk] = Ausente]
                /\ sol' = [sol EXCEPT ![r] = Terminar(nueva, Respuesta(204, "", ""))]
    /\ UNCHANGED <<nextId, enviosOk>>

----------------------------------------------------------------------------
(* Utilidades del informe: PDF, clave, cifrado *)

\* generar_pdf_lote: titulo con el codigo, una linea por campo y las
\* observaciones (solo si no son vacias)
generar_pdf_lote(l) ==
    [titulo |-> l.codigo_lote, cliente |-> l.cliente,
     humedad |-> l.humedad, impurezas |-> l.impurezas,
     grano_bueno |-> l.grano_bueno, grano_defectuoso |-> l.grano_defectuoso,
     observaciones |-> IF l.observaciones # "" THEN <<l.observaciones>> ELSE <<>>]

\* hashlib.sha256(cedula.encode('utf-8')).digest(), resumen simbolico
sha256(texto) == <<"sha256", texto>>

\* base64.urlsafe_b64encode
urlsafe_b64encode(bytes) == <<"b64", bytes>>

\* Variante que mezcla en la clave un valor propio de cada llamada
DerivarClaveConSal(ced) == urlsafe_b64encode(<<sha256(ced), iniciadas>>)

\* Variante que usa la misma clave para todas las cedulas
DerivarClaveFija(ced) == urlsafe_b64encode(sha256(<<>>))

\* Derivacion de la clave Fernet a partir de la cedula
DerivarClave(ced) == urlsafe_b64encode(sha256(ced))

\* Fernet(key).encrypt(datos): el token depende de la clave, del texto claro
\* y de un IV aleatorio, distinto en cada cifrado
FernetEncrypt(key, datos, iv) == [clave |-> key, claro |-> datos, iv |-> iv]

InvalidToken == [invalid_token |-> TRUE]
\* Fernet(key).decrypt(token): cifrado autenticado, rechaza otra clave
FernetDecrypt(key, tok) == IF tok.clave = key THEN tok.claro ELSE InvalidToken

\* Nombre del adjunto: f"informe_{lote.codigo_lote}.pdf"
NombreAdjunto(l) == <<"informe_">> \o l.codigo_lote \o <<".pdf">>

\* Textos de excepcion (str(e))
ErrorGenerar == "error de reportlab al generar el PDF"
ErrorCedula == "Cedula de usuario requerida para encriptar PDF."
ErrorSinCorreo == "El cliente no tiene direccion de correo registrada."
ErrorPlantilla == "TemplateDoesNotExist"
ErrorTransporte == "SMTPException"
ErrorSinFila == "Save with update_fields did not affect any rows."

MensajeExito == "Informe enviado exitosamente."
ErrorProcesar == "Error al procesar el informe."
ErrorSinCedula == "El cliente no tiene cedula registrada."

\* Una llamada que termina con una excepcion en lugar de un valor
Lanza(texto) == [excepcion |-> texto]

\* Variante que solo rechaza la cedula ausente
CedulaFaltaSoloNone(ced) == ced = SinAtributo

\* `if not cedula`: None (atributo ausente) y la cadena vacia
CedulaFalta(ced) == ced = SinAtributo \/ ced = CedulaVacia

\* encriptar_con_cedula(pdf_bytes, cedula): devuelve (token, clave) o lanza
\* ValueError; iv es el valor aleatorio que Fernet pone en el token
encriptar_con_cedula(pdf_bytes, ced, iv) ==
    IF CedulaFalta(ced)
    THEN Lanza(ErrorCedula)
    ELSE LET key == DerivarClave(ced)
         IN  [token |-> FernetEncrypt(key, pdf_bytes, iv), clave |-> key]

\* Variante que responde 500 sin el texto de la excepcion
RespuestaExcepcionSinDetalle(texto) == Respuesta(500, ErrorProcesar, "")

\* except Exception as e de enviar_informe_pdf: 500 con str(e) en detalle
RespuestaExcepcion(texto) == Respuesta(500, ErrorProcesar, texto)

Etapa(s, nombre) == [s EXCEPT !.etapas = Append(@, nombre)]

----------------------------------------------------------------------------
(* enviar_informe_pdf, un paso por etapa *)

\* Variante que no repite el envio de un lote ya marcado como enviado
EnviarInicioSiNoEnviado(r, pk) ==
    /\ Recibir(r)
    /\ UNCHANGED portal
    /\ LET nueva == Nueva("enviar", pk, Nulo)
       IN  IF ~Existe(pk)
           THEN sol' = [sol EXCEPT ![r] = Terminar(nueva, Respuesta(404, "no encontrado", ""))]
           ELSE IF ~TieneCedula(lotes[pk].cliente)
           THEN sol' = [sol EXCEPT ![r] = Terminar(nueva, Respuesta(400, ErrorSinCedula, ""))]
           ELSE IF lotes[pk].enviado
           THEN sol' = [sol EXCEPT ![r] = Terminar(nueva, Respuesta(200, MensajeExito, ""))]
           ELSE sol' = [sol EXCEPT ![r] = [nueva EXCEPT !.pc = "generar", !.lote = lotes[pk]]]
    /\ UNCHANGED <<lotes, nextId, enviosOk>>

\* get_object_or_404 y comprobacion de la cedula del cliente
EnviarInicio(r, pk) ==
    /\ Recibir(r)
    /\ UNCHANGED portal
    /\ LET nueva == Nueva("enviar", pk, Nulo)
       IN  IF ~Existe(pk)
           THEN sol' = [sol EXCEPT ![r] = Terminar(nueva, Respuesta(404, "no encontrado", ""))]
           ELSE IF ~TieneCedula(lotes[pk].cliente)
           THEN sol' = [sol EXCEPT ![r] = Terminar(nueva, Respuesta(400, ErrorSinCedula, ""))]
           ELSE sol' = [sol EXCEPT ![r] = [nueva EXCEPT !.pc = "generar", !.lote = lotes[pk]]]
    /\ UNCHANGED <<lotes, nextId, enviosOk>>

\* Variante que sigue con la etapa siguiente aunque generar falle
GenerarPdfContinua(r) ==
    /\ sol[r].pc = "generar"
    /\ UNCHANGED <<iniciadas, portal>>
    /\ LET s == Etapa(sol[r], "generar")
       IN  \/ sol' = [sol EXCEPT ![r] =
                    [s EXCEPT !.pc = "encriptar", !.pdf = generar_pdf_lote(s.lote)]]
           \/ sol' = [sol EXCEPT ![r] = [s EXCEPT !.pc = "encriptar"]]
    /\ UNCHANGED <<lotes, nextId, enviosOk>>

\* pdf = generar_pdf_lote(lote); la libreria de maquetacion puede lanzar
GenerarPdf(r) ==
    /\ sol[r].pc = "generar"
    /\ UNCHANGED <<iniciadas, portal>>
    /\ LET s == Etapa(sol[r], "generar")
       IN  \/ sol' = [sol EXCEPT ![r] =
                    [s EXCEPT !.pc = "encriptar", !.pdf = generar_pdf_lote(s.lote)]]
           \/ sol' = [sol EXCEPT ![r] = Terminar(s, RespuestaExcepcion(ErrorGenerar))]
    /\ UNCHANGED <<lotes, nextId, enviosOk>>

\* pdf_encriptado, clave = encriptar_con_cedula(pdf, cliente.cedula)
Encriptar(r) ==
    /\ sol[r].pc = "encriptar"
    /\ UNCHANGED <<iniciadas, portal>>
    /\ LET s == Etapa(sol[r], "derivar")
           res == encriptar_con_cedula(s.pdf, cedula(s.lote.cliente), s.num)
       IN  IF "excepcion" \in DOMAIN res
           THEN sol' = [sol EXCEPT ![r] = Terminar(s, RespuestaExcepcion(res.excepcion))]
           ELSE sol' = [sol EXCEPT ![r] =
                    [Etapa(s, "encriptar") EXCEPT !.pc = "enviar", !.token = res.token]]
    /\ UNCHANGED <<lotes, nextId, enviosOk>>

\* Plantillas, adjunto y email.send(fail_silently=False): falla al
\* renderizar las plantillas, falla el transporte, o el envio termina bien
IntentoDeEntrega(r, s, msg) ==
    \/ /\ sol' = [sol EXCEPT ![r] = Terminar(s, RespuestaExcepcion(ErrorPlantilla))]
       /\ UNCHANGED enviosOk
    \/ /\ sol' = [sol EXCEPT ![r] =
                Terminar([s EXCEPT !.mensaje = msg], RespuestaExcepcion(ErrorTransporte))]
       /\ UNCHANGED enviosOk
    \/ /\ enviosOk[s.pk] < MaxEnvios
       /\ enviosOk' = [enviosOk EXCEPT ![s.pk] = @ + 1]
       /\ sol' = [sol EXCEPT ![r] =
                [s EXCEPT !.pc = "guardar_utils",
                          !.mensaje = [msg EXCEPT !.entregado = TRUE]]]

\* Variante que adjunta el documento sin encriptar
MensajeSinCifrar(s) ==
    [para |-> email(s.lote.cliente), pk |-> s.pk,
     nombre |-> NombreAdjunto(s.lote), contenido |-> s.pdf, entregado |-> FALSE]

\* El mensaje que se entrega al transporte
Mensaje(s) ==
    [para |-> email(s.lote.cliente), pk |-> s.pk,
     nombre |-> NombreAdjunto(s.lote), contenido |-> s.token, entregado |-> FALSE]

\* Variante que consulta el indicador enviado antes de transmitir
EnviarCorreoSiNoEnviado(r) ==
    /\ sol[r].pc = "enviar"
    /\ UNCHANGED <<iniciadas, portal>>
    /\ LET s == Etapa(sol[r], "entregar")
       IN  IF ~TieneCorreo(s.lote.cliente)
           THEN /\ sol' = [sol EXCEPT ![r] = Terminar(s, RespuestaExcepcion(ErrorSinCorreo))]
                /\ UNCHANGED enviosOk
           ELSE IF Existe(s.pk) /\ lotes[s.pk].enviado
           THEN /\ sol' = [sol EXCEPT ![r] = Terminar(s, Respuesta(200, MensajeExito, ""))]
                /\ UNCHANGED enviosOk
           ELSE IntentoDeEntrega(r, s, Mensaje(s))
    /\ UNCHANGED <<lotes, nextId>>

\* enviar_informe_por_correo hasta email.send(): direccion, plantillas,
\* adjunto y transmision
EnviarCorreo(r) ==
    /\ sol[r].pc = "enviar"
    /\ UNCHANGED <<iniciadas, portal>>
    /\ LET s == Etapa(sol[r], "entregar")
       IN  IF ~TieneCorreo(s.lote.cliente)
           THEN /\ sol' = [sol EXCEPT ![r] = Terminar(s, RespuestaExcepcion(ErrorSinCorreo))]
                /\ UNCHANGED enviosOk
           ELSE IntentoDeEntrega(r, s, Mensaje(s))
    /\ UNCHANGED <<lotes, nextId>>

\* Variante que no escribe la columna
SaveEnviadoNoEscribe(tabla, pk) == tabla

\* lote.enviado = True; lote.save(update_fields=['enviado']): save() deriva
\* porcentajes en memoria y el ORM escribe solo la columna enviado; si no
\* hay fila lanza DatabaseError
SaveEnviado(tabla, pk) == [tabla EXCEPT ![pk] = [@ EXCEPT !.enviado = TRUE]]

\* Variante que guarda sin update_fields: escribe la instancia cargada entera
GuardarEnviadoUtilsFilaCompleta(r) ==
    /\ sol[r].pc = "guardar_utils"
    /\ UNCHANGED <<iniciadas, portal>>
    /\ LET s == [sol[r] EXCEPT !.lote = CalcularPorcentajes([@ EXCEPT !.enviado = TRUE])]
       IN  /\ lotes' = [lotes EXCEPT ![s.pk] = s.lote]
           /\ sol' = [sol EXCEPT ![r] = [s EXCEPT !.pc = "guardar_vista"]]
    /\ UNCHANGED <<nextId, enviosOk>>

\* El save dentro del try de enviar_informe_por_correo
GuardarEnviadoUtils(r) ==
    /\ sol[r].pc = "guardar_utils"
    /\ UNCHANGED <<iniciadas, portal>>
    /\ LET s == [sol[r] EXCEPT !.lote = CalcularPorcentajes([@ EXCEPT !.enviado = TRUE])]
       IN  IF Existe(s.pk)
           THEN /\ lotes' = SaveEnviado(lotes, s.pk)
                /\ sol' = [sol EXCEPT ![r] = [s EXCEPT !.pc = "guardar_vista"]]
           ELSE /\ sol' = [sol EXCEPT ![r] = Terminar(s, RespuestaExcepcion(ErrorSinFila))]
                /\ UNCHANGED lotes
    /\ UNCHANGED <<nextId, enviosOk>>

\* El segundo save, en la vista, y la respuesta 200
GuardarEnviadoVista(r) ==
    /\ sol[r].pc = "guardar_vista"
    /\ UNCHANGED <<iniciadas, portal>>
    /\ LET s == [sol[r] EXCEPT !.lote = CalcularPorcentajes([@ EXCEPT !.enviado = TRUE])]
       IN  IF Existe(s.pk)
           THEN /\ lotes' = SaveEnviado(lotes, s.pk)
                /\ sol' = [sol EXCEPT ![r] = Terminar(s, Respuesta(200, MensajeExito, ""))]
           ELSE /\ sol' = [sol EXCEPT ![r] = Terminar(s, RespuestaExcepcion(ErrorSinFila))]
                /\ UNCHANGED lotes
    /\ UNCHANGED <<nextId, enviosOk>>

----------------------------------------------------------------------------
(* Datos de las peticiones *)

CodigoL1 == <<"L", "1">>

Datos(metodo, presentes, cli, codigo, h, i, b, g, obs) ==
    [metodo |-> metodo, presentes |-> presentes, cliente |-> cli,
     codigo_lote |-> codigo, humedad |-> h, impurezas |-> i,
     grano_bueno |-> b, grano_defectuoso |-> g, observaciones |-> obs,
     enviado |-> TRUE]

\* Spec: un registro por cliente (escenario A: 10, 5, 80, sin defectuoso);
\* la peticion trae ademas enviado=true, que el serializador ignora
DatosRegistro ==
    { Datos("POST", CamposRequeridos \cup {"grano_bueno", "enviado"},
            c, <<" ", "l", "1">>, 10, 5, 80, None, "")
        : c \in Clientes }

DatosActualizar ==
    { Datos("PATCH", {"observaciones", "enviado"}, 1, <<>>, None, None, None, None, "rev") }

----------------------------------------------------------------------------
(* Especificacion del sistema completo *)

Init ==
    /\ lotes = [k \in 1..MaxLotes |-> Ausente]
    /\ nextId = 1
    /\ sol = [r \in Solicitudes |-> SolLibre]
    /\ enviosOk = [k \in 1..MaxLotes |-> 0]
    /\ iniciadas = 0
    /\ sensores = <<>>
    /\ usuarios = <<>>
    /\ clientes = <<>>
    /\ sesiones = [b \in {1, 2} |-> 0]

Next ==
    \E r \in Solicitudes :
        \/ \E d \in DatosRegistro : RegistrarLote(r, d, MaxLotes)
        \/ \E pk \in DOMAIN lotes, d \in DatosActualizar : ActualizarCargar(r, pk, d)
        \/ ActualizarGuardar(r)
        \/ \E pk \in DOMAIN lotes : EliminarLote(r, pk)
        \/ \E pk \in DOMAIN lotes : EnviarInicio(r, pk)
        \/ GenerarPdf(r)
        \/ Encriptar(r)
        \/ EnviarCorreo(r)
        \/ GuardarEnviadoUtils(r)
        \/ GuardarEnviadoVista(r)

Spec == Init /\ [][Next]_vars

----------------------------------------------------------------------------
(* Especificacion de las reglas de porcentajes: registro, actualizacion y  *)
(* borrado, una peticion tras otra, con datos variados en los cuatro       *)
(* porcentajes                                                             *)

SolicitudesCalidad == {1}

Humedades == {10, 60, 101}
Opcionales == {None, 20, 60}

\* Valores que puede traer un campo opcional: los de Opcionales si viene en
\* la peticion, ninguno (se deja None) si se omite
ValoresDe(campo, presentes) == IF campo \in presentes THEN Opcionales ELSE {None}

\* Peticiones completas (POST o PUT): impurezas 30, grano_bueno y
\* grano_defectuoso presentes (con valor o null) u omitidos
DatosCompletos(metodo) ==
    UNION { { Datos(metodo, CamposRequeridos \cup extra, 1, CodigoL1, h, 30, b, g, "")
                : h \in Humedades,
                  b \in ValoresDe("grano_bueno", extra),
                  g \in ValoresDe("grano_defectuoso", extra) }
            : extra \in SUBSET {"grano_bueno", "grano_defectuoso"} }

\* Peticiones PATCH sobre uno o dos porcentajes
DatosParciales ==
    { Datos("PATCH", {"humedad"}, 1, CodigoL1, h, 30, None, None, "") : h \in {10, 60} }
    \cup
    UNION { { Datos("PATCH", campos, 1, CodigoL1, 10, 30, b, g, "")
                : b \in ValoresDe("grano_bueno", campos),
                  g \in ValoresDe("grano_defectuoso", campos) }
            : campos \in {{"grano_bueno"}, {"grano_defectuoso"},
                          {"grano_bueno", "grano_defectuoso"}} }

DatosRegistroCalidad == DatosCompletos("POST")
DatosActualizarCalidad == DatosCompletos("PUT") \cup DatosParciales

NextCalidad ==
    \E r \in SolicitudesCalidad :
        \/ \E d \in DatosRegistroCalidad : RegistrarLote(r, d, MaxLotes)
        \/ \E pk \in DOMAIN lotes, d \in DatosActualizarCalidad : ActualizarCargar(r, pk, d)
        \/ ActualizarGuardar(r)
        \/ \E pk \in DOMAIN lotes : EliminarLote(r, pk)

SpecCalidad == Init /\ [][NextCalidad]_vars

----------------------------------------------------------------------------
(* Especificacion de encriptar_con_cedula llamada directamente, con        *)
(* cualquier documento y cualquier cedula, tambien ausente o vacia          *)

\* Documentos: los informes de dos lotes distintos
Documentos ==
    { generar_pdf_lote(CalcularPorcentajes(AplicarDatos(FilaPorDefecto, d)))
        : d \in { x \in DatosRegistro : x.cliente \in {1, 4} } }

Cedulas == { cedula(c) : c \in Clientes }

\* Llega una llamada con sus argumentos
LlamarEncriptar(r, doc, ced) ==
    /\ Recibir(r)
    /\ UNCHANGED portal
    /\ sol' = [sol EXCEPT ![r] =
            [Nueva("encriptar", 0, [pdf_bytes |-> doc, cedula |-> ced])
                EXCEPT !.pc = "llamada"]]
    /\ UNCHANGED <<lotes, nextId, enviosOk>>

\* La llamada corre y devuelve (token, clave) o lanza
EjecutarEncriptar(r) ==
    /\ sol[r].pc = "llamada"
    /\ UNCHANGED <<iniciadas, portal>>
    /\ LET s == sol[r]
           res == encriptar_con_cedula(s.datos.pdf_bytes, s.datos.cedula, s.num)
       IN  sol' = [sol EXCEPT ![r] = [s EXCEPT !.pc = "fin", !.resp = res]]
    /\ UNCHANGED <<lotes, nextId, enviosOk>>

NextCifrado ==
    \E r \in Solicitudes :
        \/ \E doc \in Documentos, ced \in Cedulas : LlamarEncriptar(r, doc, ced)
        \/ EjecutarEncriptar(r)

SpecCifrado == Init /\ [][NextCifrado]_vars

----------------------------------------------------------------------------
(* Aplicacion sensores: modelo Sensor, serializador y vista de lista       *)
(* (GET y POST de /api2/sensores/).  Del sensor se conservan nombre, tipo, *)
(* ubicacion y activo; los parametros de automatizacion no intervienen en  *)
(* la creacion ni en el filtrado.                                          *)

\* TipoSensor (TextChoices): los valores que acepta el campo tipo
TipoSensor ==
    { <<"t","e","m","p","e","r","a","t","u","r","a">>,
      <<"h","u","m","e","d","a","d">>,
      <<"p","r","e","s","i","o","n">>,
      <<"l","u","m","i","n","o","s","i","d","a","d">>,
      <<"g","a","s">>,
      <<"p","h">> }

\* Codigos de tipo que usan las pruebas
TEM == <<"T", "E", "M">>
HUM == <<"H", "U", "M">>
LUZ == <<"L", "U", "Z">>

\* Nombres de sensor, en orden alfabetico
NombresSensor == <<"Nuevo Sensor", "Sensor Humedad", "Sensor Temperatura">>

\* Posicion de un nombre en el orden alfabetico
OrdenNombre(n) == CHOOSE k \in 1..Len(NombresSensor) : NombresSensor[k] = n

\* Paso a minusculas de un caracter (comparacion iexact)
LowerChar(ch) ==
    CASE ch = "T" -> "t" [] ch = "E" -> "e" [] ch = "M" -> "m"
      [] ch = "H" -> "h" [] ch = "U" -> "u" [] ch = "L" -> "l"
      [] ch = "Z" -> "z" [] ch = "G" -> "g" [] ch = "A" -> "a"
      [] ch = "S" -> "s" [] ch = "P" -> "p"
      [] OTHER -> ch

Lower(t) == [k \in 1..Len(t) |-> LowerChar(t[k])]

\* lookup iexact: igualdad sin distinguir mayusculas
iexact(a, b) == Lower(a) = Lower(b)

FilaSensor(nombre, tipo, ubicacion, activo) ==
    [nombre |-> nombre, tipo |-> tipo, ubicacion |-> ubicacion, activo |-> activo]

IdsSensor == DOMAIN sensores

NombreSensorEnUso(nombre) == \E k \in IdsSensor : sensores[k].nombre = nombre

\* Sensor.objects.create(...): inserta sin validar choices; la restriccion
\* unique de nombre la impone la base de datos
SensorObjectsCreate(fila) ==
    /\ Len(sensores) < MaxSensores
    /\ ~NombreSensorEnUso(fila.nombre)
    /\ sensores' = Append(sensores, fila)
    /\ UNCHANGED <<calidad, sol, iniciadas, usuarios, clientes, sesiones>>

\* Respuesta con datos serializados
RespuestaDatos(st, data) == [status |-> st, data |-> data]

\* permission_classes = [IsAuthenticated]: sin usuario autenticado la
\* peticion se rechaza con 401 o 403 segun la clase de autenticacion
NoAutenticado == {401, 403}

\* Variante que acepta cualquier tipo
TipoValidoCualquiera(tipo) == tipo # <<>>

\* ChoiceField de tipo: el valor debe ser exactamente uno de los choices
TipoValido(tipo) == tipo \in TipoSensor

\* SensorSerializer.is_valid(): nombre requerido, no vacio y unico; tipo
\* requerido y valido
SensorValido(d) ==
    /\ "nombre" \in d.presentes /\ d.nombre # ""
    /\ ~NombreSensorEnUso(d.nombre)
    /\ "tipo" \in d.presentes /\ TipoValido(d.tipo)

\* Fila que crea el serializador: ubicacion y activo toman su valor por
\* defecto si no vienen
SensorDeDatos(d) ==
    FilaSensor(d.nombre, d.tipo,
               IF "ubicacion" \in d.presentes THEN d.ubicacion ELSE "",
               IF "activo" \in d.presentes THEN d.activo ELSE TRUE)

\* POST /api2/sensores/ (ListCreateAPIView.create)
CrearSensor(r, aut, d) ==
    /\ Recibir(r)
    /\ LET nueva == Nueva("crear_sensor", Len(sensores) + 1, d)
       IN  IF ~aut
           THEN /\ \E st \in NoAutenticado :
                     sol' = [sol EXCEPT ![r] = Terminar(nueva, RespuestaDatos(st, <<>>))]
                /\ UNCHANGED sensores
           ELSE IF ~SensorValido(d)
           THEN /\ sol' = [sol EXCEPT ![r] = Terminar(nueva, RespuestaDatos(400, <<>>))]
                /\ UNCHANGED sensores
           ELSE /\ Len(sensores) < MaxSensores
                /\ sensores' = Append(sensores, SensorDeDatos(d))
                /\ sol' = [sol EXCEPT ![r] =
                        Terminar(nueva, RespuestaDatos(201, <<Len(sensores) + 1>>))]
    /\ UNCHANGED <<calidad, usuarios, clientes, sesiones>>

\* Variante del filtro que compara distinguiendo mayusculas
PasaFiltroTipoExacto(fila, tipo) == tipo = <<>> \/ fila.tipo = tipo

\* SensorFilter.tipo: CharFilter iexact; un valor vacio no filtra
PasaFiltroTipo(fila, tipo) == tipo = <<>> \/ iexact(fila.tipo, tipo)

\* SensorFilter.activo: BooleanFilter; un valor vacio no filtra
PasaFiltroActivo(fila, activo) ==
    CASE activo = "true" -> fila.activo
      [] activo = "false" -> ~fila.activo
      [] OTHER -> TRUE

\* filter_queryset: los ids de los sensores que pasan los filtros
Filtrados(f) ==
    { k \in IdsSensor :
        PasaFiltroTipo(sensores[k], f.tipo) /\ PasaFiltroActivo(sensores[k], f.activo) }

RECURSIVE OrdenarPorNombre(_)
\* ordering = ["nombre"]
OrdenarPorNombre(ids) ==
    IF ids = {} THEN <<>>
    ELSE LET k == CHOOSE x \in ids :
                    \A y \in ids : OrdenNombre(sensores[x].nombre) <= OrdenNombre(sensores[y].nombre)
         IN  <<k>> \o OrdenarPorNombre(ids \ {k})

\* SensorSerializer(many=True).data
SerializarSensores(orden) ==
    [j \in 1..Len(orden) |->
        [id |-> orden[j], nombre |-> sensores[orden[j]].nombre,
         tipo |-> sensores[orden[j]].tipo, activo |-> sensores[orden[j]].activo]]

\* GET /api2/sensores/ (ListCreateAPIView.list)
ListarSensores(r, aut, f) ==
    /\ Recibir(r)
    /\ LET nueva == Nueva("listar_sensores", 0, f)
       IN  IF ~aut
           THEN \E st \in NoAutenticado :
                    sol' = [sol EXCEPT ![r] = Terminar(nueva, RespuestaDatos(st, <<>>))]
           ELSE sol' = [sol EXCEPT ![r] =
                    Terminar(nueva,
                        RespuestaDatos(200, SerializarSensores(OrdenarPorNombre(Filtrados(f)))))]
    /\ UNCHANGED <<calidad, portal>>

\* Sensores que crean las pruebas directamente con el ORM
SensoresORM ==
    { FilaSensor("Sensor Temperatura", TEM, "Invernadero 1", TRUE),
      FilaSensor("Sensor Humedad", HUM, "Invernadero 2", FALSE) }

DatosSensor(presentes, nombre, tipo, ubicacion, activo) ==
    [presentes |-> presentes, nombre |-> nombre, tipo |-> tipo,
     ubicacion |-> ubicacion, activo |-> activo]

\* Cuerpos de POST: el de test_crear_sensor_valido (tipo 'LUZ'), uno con un
\* tipo de TipoSensor, uno con un nombre que puede estar en uso
DatosCrearSensor ==
    { DatosSensor({"nombre", "tipo", "ubicacion", "activo"},
                  "Nuevo Sensor", LUZ, "Invernadero 3", TRUE),
      DatosSensor({"nombre", "tipo", "ubicacion", "activo"},
                  "Nuevo Sensor", <<"g","a","s">>, "Invernadero 3", TRUE),
      DatosSensor({"nombre", "tipo"},
                  "Sensor Humedad", <<"p","h">>, "", TRUE) }

\* Parametros de consulta de GET
FiltrosSensor ==
    { [tipo |-> t, activo |-> a] :
        t \in {<<>>, TEM, <<"h","u","m">>, <<"G","a","s">>},
        a \in {"", "true"} }

NextSensores ==
    \/ \E fila \in SensoresORM : SensorObjectsCreate(fila)
    \/ \E r \in Solicitudes, aut \in BOOLEAN, d \in DatosCrearSensor : CrearSensor(r, aut, d)
    \/ \E r \in Solicitudes, aut \in BOOLEAN, f \in FiltrosSensor : ListarSensores(r, aut, f)

SpecSensores == Init /\ [][NextSensores]_vars

----------------------------------------------------------------------------
(* Usuarios, sesiones y el panel HTML de sensores (SensorTemplateView)     *)

\* Usuario.ROLE_CHOICES
ROLE_CLIENTE == "cliente"
ROLE_ADMIN == "admin"
ROLE_SUPERVISOR == "supervisor"
ROLE_CHOICES == {ROLE_CLIENTE, ROLE_ADMIN, ROLE_SUPERVISOR}

FilaUsuario(correo, username, password, role) ==
    [email |-> correo, username |-> username, password |-> password, role |-> role]

EmailEnUso(e) == \E k \in DOMAIN usuarios : usuarios[k].email = e
UsernameEnUso(u) == \E k \in DOMAIN usuarios : usuarios[k].username = u

\* UserManager.create_user(username, email=None, password=None, **extra):
\* exige username, normaliza email (None -> ''), guarda la fila; devuelve la
\* tabla nueva o lanza (ValueError, IntegrityError por email o username
\* repetidos)
create_user(username, correo, password, role) ==
    IF username = "" THEN Lanza("The given username must be set")
    ELSE IF EmailEnUso(correo) \/ UsernameEnUso(username) THEN Lanza("IntegrityError")
    ELSE [tabla |-> Append(usuarios, FilaUsuario(correo, username, password, role))]

\* User.objects.create_user(...) como lo llaman las pruebas (rol por defecto)
CrearUsuarioORM(username, correo, password) ==
    /\ Len(usuarios) < MaxUsuarios
    /\ LET res == create_user(username, correo, password, ROLE_CLIENTE)
       IN  /\ "tabla" \in DOMAIN res
           /\ usuarios' = res.tabla
    /\ UNCHANGED <<calidad, sol, iniciadas, sensores, clientes, sesiones>>

Navegadores == DOMAIN sesiones

\* ModelBackend.authenticate: busca al usuario por USERNAME_FIELD (email) y
\* comprueba la clave; devuelve su id o 0
authenticate(ident, password) ==
    IF \E k \in DOMAIN usuarios :
            usuarios[k].email = ident /\ usuarios[k].password = password
    THEN CHOOSE k \in DOMAIN usuarios :
            usuarios[k].email = ident /\ usuarios[k].password = password
    ELSE 0

\* client.login(username=..., password=...): abre sesion si authenticate
\* encuentra al usuario
IniciarSesion(b, ident, password) ==
    /\ authenticate(ident, password) # 0
    /\ sesiones' = [sesiones EXCEPT ![b] = authenticate(ident, password)]
    /\ UNCHANGED <<calidad, sol, iniciadas, sensores, usuarios, clientes>>

\* LogoutView: cierra la sesion del navegador
CerrarSesion(b) ==
    /\ sesiones[b] # 0
    /\ sesiones' = [sesiones EXCEPT ![b] = 0]
    /\ UNCHANGED <<calidad, sol, iniciadas, sensores, usuarios, clientes>>

\* Rutas: el panel esta en api2/ + panel/; las pruebas piden /sensores/
UrlPanel == "/api2/panel/"
UrlPrueba == "/sensores/"
\* settings.LOGIN_URL (valor por defecto de Django, el que esperan las pruebas)
LOGIN_URL == "/accounts/login/"
PlantillaPanel == "sensores/sensores_list.html"

RespuestaHtml(st, location, contenido) ==
    [status |-> st, location |-> location, contenido |-> contenido]

\* Variante sin el decorador login_required
SensorTemplateViewSinLogin(b, url) == RespuestaHtml(200, "", PlantillaPanel)

\* @method_decorator(login_required, name='dispatch') sobre TemplateView
SensorTemplateView(b, url) ==
    IF sesiones[b] = 0
    THEN RespuestaHtml(302, [ruta |-> LOGIN_URL, next |-> url], "")
    ELSE RespuestaHtml(200, "", PlantillaPanel)

\* GET de un navegador: resolucion de la ruta y vista
GetHtml(r, b, url) ==
    /\ Recibir(r)
    /\ LET nueva == Nueva("get_html", 0, [navegador |-> b, url |-> url])
       IN  IF url = UrlPanel
           THEN sol' = [sol EXCEPT ![r] = Terminar(nueva, SensorTemplateView(b, url))]
           ELSE sol' = [sol EXCEPT ![r] = Terminar(nueva, RespuestaHtml(404, "", ""))]
    /\ UNCHANGED <<calidad, portal>>

\* Usuarios que crean las pruebas y credenciales que se intentan
UsuariosORM ==
    { [username |-> "testuser", email |-> "", password |-> "testpass123"],
      [username |-> "ana", email |-> "ana@agro", password |-> "testpass123"] }

Credenciales ==
    { [ident |-> i, password |-> p] :
        i \in {"testuser", "ana@agro"}, p \in {"testpass123", "otra"} }

NextPanel ==
    \/ \E u \in UsuariosORM : CrearUsuarioORM(u.username, u.email, u.password)
    \/ \E b \in Navegadores, c \in Credenciales : IniciarSesion(b, c.ident, c.password)
    \/ \E b \in Navegadores : CerrarSesion(b)
    \/ \E r \in Solicitudes, b \in Navegadores, url \in {UrlPanel, UrlPrueba} : GetHtml(r, b, url)

SpecPanel == Init /\ [][NextPanel]_vars

----------------------------------------------------------------------------
(* Registro publico de usuarios: usuario-create y cliente-create           *)

\* password = CharField(min_length=8)
MinLargoClave == 8

\* Campo role del serializador: escribible, con default ROLE_CLIENTE
RolDeRegistro(d) == IF "role" \in d.presentes THEN d.role ELSE ROLE_CLIENTE

\* UsuarioRegistroSerializer.is_valid(): email requerido y unico, username
\* opcional (puede ir vacio) y unico, password de 8 caracteres o mas, role
\* dentro de ROLE_CHOICES
UsuarioRegistroValido(d) ==
    /\ "email" \in d.presentes /\ d.email # "" /\ ~EmailEnUso(d.email)
    /\ ("username" \in d.presentes /\ d.username # "") => ~UsernameEnUso(d.username)
    /\ "password" \in d.presentes /\ Len(d.password) >= MinLargoClave
    /\ "role" \in d.presentes => d.role \in ROLE_CHOICES

\* UsuarioRegistroSerializer.create: create_user(password=..., **validated_data);
\* sin username en validated_data la llamada lanza TypeError
UsuarioRegistroCreate(d) ==
    IF "username" \notin d.presentes
    THEN Lanza("TypeError: create_user() missing 'username'")
    ELSE create_user(d.username, d.email, d.password, RolDeRegistro(d))

\* POST /api1/usuarios/crear/ (UsuarioCreateView, AllowAny)
RegistrarUsuario(r, d) ==
    /\ Recibir(r)
    /\ LET nueva == Nueva("registrar_usuario", Len(usuarios) + 1, d)
           res == UsuarioRegistroCreate(d)
       IN  IF ~UsuarioRegistroValido(d)
           THEN /\ sol' = [sol EXCEPT ![r] = Terminar(nueva, RespuestaDatos(400, <<>>))]
                /\ UNCHANGED usuarios
           ELSE IF "excepcion" \in DOMAIN res
           THEN /\ sol' = [sol EXCEPT ![r] = Terminar(nueva, RespuestaDatos(500, <<>>))]
                /\ UNCHANGED usuarios
           ELSE /\ Len(usuarios) < MaxUsuarios
                /\ usuarios' = res.tabla
                /\ sol' = [sol EXCEPT ![r] =
                        Terminar(nueva, RespuestaDatos(201, <<Len(usuarios) + 1>>))]
    /\ UNCHANGED <<calidad, sensores, clientes, sesiones>>

\* POST /api1/clientes/crear/ (ClienteCreateView, AllowAny): valida el
\* usuario anidado y nombre_completo, crea el Usuario y luego el Cliente
RegistrarCliente(r, d) ==
    /\ Recibir(r)
    /\ LET nueva == Nueva("registrar_cliente", Len(clientes) + 1, d)
           res == UsuarioRegistroCreate(d.usuario)
       IN  IF ~(UsuarioRegistroValido(d.usuario) /\ d.nombre_completo # "")
           THEN /\ sol' = [sol EXCEPT ![r] = Terminar(nueva, RespuestaDatos(400, <<>>))]
                /\ UNCHANGED <<usuarios, clientes>>
           ELSE IF "excepcion" \in DOMAIN res
           THEN /\ sol' = [sol EXCEPT ![r] = Terminar(nueva, RespuestaDatos(500, <<>>))]
                /\ UNCHANGED <<usuarios, clientes>>
           ELSE /\ Len(usuarios) < MaxUsuarios
                /\ usuarios' = res.tabla
                /\ clientes' = Append(clientes,
                        [usuario |-> Len(usuarios) + 1, nombre_completo |-> d.nombre_completo])
                /\ sol' = [sol EXCEPT ![r] =
                        Terminar(nueva, RespuestaDatos(201, <<Len(clientes) + 1>>))]
    /\ UNCHANGED <<calidad, sensores, sesiones>>

ClaveBuena == <<"c", "l", "a", "v", "e", "1", "2", "3">>
ClaveCorta == <<"c", "l", "a", "v", "e">>

DatosUsuario(presentes, correo, username, password, role) ==
    [presentes |-> presentes, email |-> correo, username |-> username,
     password |-> password, role |-> role]

\* Cuerpos de registro: sin role, con cada role de ROLE_CHOICES, con un
\* role desconocido, sin username y con la clave corta
DatosRegistroUsuario ==
    { DatosUsuario({"email", "username", "password"}, "ana@agro", "ana", ClaveBuena, ""),
      DatosUsuario({"email", "password"}, "luis@agro", "", ClaveBuena, ""),
      DatosUsuario({"email", "username", "password"}, "luis@agro", "luis", ClaveCorta, "") }
    \cup
    { DatosUsuario({"email", "username", "password", "role"}, "luis@agro", "luis", ClaveBuena, rol)
        : rol \in ROLE_CHOICES \cup {"jefe"} }

DatosRegistroCliente ==
    { [usuario |-> u, nombre_completo |-> n] :
        u \in { x \in DatosRegistroUsuario : x.role \in {"", ROLE_ADMIN} /\ x.password = ClaveBuena },
        n \in {"Ana Ruiz", ""} }

NextUsuarios ==
    \E r \in Solicitudes :
        \/ \E d \in DatosRegistroUsuario : RegistrarUsuario(r, d)
        \/ \E d \in DatosRegistroCliente : RegistrarCliente(r, d)

SpecUsuarios == Init /\ [][NextUsuarios]_vars

----------------------------------------------------------------------------
(* Permisos por rol (usuarios/permissions.py) y vistas de lista, detalle y  *)
(* edicion de usuarios y clientes (usuarios/views.py)                       *)

\* request.user.is_authenticated: 0 es AnonymousUser, k > 0 el usuario de id k
is_authenticated(quien) == quien # 0

\* Quienes pueden hacer una peticion: el anonimo y cada usuario guardado
Solicitantes == {0} \cup DOMAIN usuarios

SAFE_METHODS == {"GET", "HEAD", "OPTIONS"}

\* permissions.IsAuthenticated.has_permission
IsAuthenticated(quien) == is_authenticated(quien)

\* IsAdminUser.has_permission
IsAdminUser(quien) == is_authenticated(quien) /\ usuarios[quien].role = ROLE_ADMIN

\* IsAdminOrReadOnly.has_permission: los metodos de lectura pasan siempre
IsAdminOrReadOnly(quien, metodo) ==
    IF metodo \in SAFE_METHODS THEN TRUE ELSE IsAdminUser(quien)

\* Resultado de un permiso de objeto: permite, deniega o lanza
Permitido == "permitido"
Denegado == "denegado"
ErrorAtributo == "AttributeError: 'Usuario' object has no attribute 'usuario'"

\* IsOwnerOrAdmin.has_object_permission: lee obj.usuario antes de mirar el
\* rol; una fila de Usuario no tiene ese atributo
IsOwnerOrAdmin(quien, obj) ==
    IF ~is_authenticated(quien) THEN Denegado
    ELSE IF "usuario" \notin DOMAIN obj THEN ErrorAtributo
    ELSE IF obj.usuario = quien \/ usuarios[quien].role = ROLE_ADMIN THEN Permitido
    ELSE Denegado

\* IsOwnerClienteOnly.has_object_permission
IsOwnerClienteOnly(quien, obj) == is_authenticated(quien) /\ obj.usuario = quien

\* permission_classes = [IsOwnerClienteOnly | IsAdminUser], permiso de
\* objeto: cada lado exige su has_permission y su has_object_permission
\* (los que la clase no define devuelven True)
PermisoCliente(quien, obj) ==
    \/ IsOwnerClienteOnly(quien, obj)
    \/ IsAdminUser(quien)

\* permission_denied: la peticion termina con 401 o 403 para el anonimo y
\* con 403 para un autenticado
Denegar(r, nueva, quien) ==
    \E st \in (IF is_authenticated(quien) THEN {403} ELSE NoAutenticado) :
        sol' = [sol EXCEPT ![r] = Terminar(nueva, RespuestaDatos(st, <<>>))]

\* GET /api1/usuarios/ (UsuarioListView): [IsAuthenticated, IsAdminOrReadOnly]
ListarUsuarios(r, quien) ==
    /\ Recibir(r)
    /\ LET nueva == Nueva("listar_usuarios", 0, [quien |-> quien, metodo |-> "GET", cuerpo |-> Nulo])
       IN  IF ~(IsAuthenticated(quien) /\ IsAdminOrReadOnly(quien, "GET"))
           THEN Denegar(r, nueva, quien)
           ELSE sol' = [sol EXCEPT ![r] =
                    Terminar(nueva, RespuestaDatos(200, [k \in DOMAIN usuarios |-> k]))]
    /\ UNCHANGED <<calidad, portal>>

\* GET /api1/clientes/ (ClienteListView): [IsAuthenticated, IsAdminOrReadOnly]
ListarClientes(r, quien) ==
    /\ Recibir(r)
    /\ LET nueva == Nueva("listar_clientes", 0, [quien |-> quien, metodo |-> "GET", cuerpo |-> Nulo])
       IN  IF ~(IsAuthenticated(quien) /\ IsAdminOrReadOnly(quien, "GET"))
           THEN Denegar(r, nueva, quien)
           ELSE sol' = [sol EXCEPT ![r] =
                    Terminar(nueva, RespuestaDatos(200, [k \in DOMAIN clientes |-> k]))]
    /\ UNCHANGED <<calidad, portal>>

\* UsuarioSerializer.is_valid(): email y username requeridos (salvo PATCH),
\* no vacios y unicos entre los demas usuarios
UsuarioValido(pk, d, parcial) ==
    /\ parcial \/ {"email", "username"} \subseteq d.presentes
    /\ "email" \in d.presentes =>
          /\ d.email # ""
          /\ \A k \in DOMAIN usuarios \ {pk} : usuarios[k].email # d.email
    /\ "username" \in d.presentes =>
          /\ d.username # ""
          /\ \A k \in DOMAIN usuarios \ {pk} : usuarios[k].username # d.username

\* UsuarioSerializer.update: fields = (id, email, username, role) con id y
\* role de solo lectura; solo email y username llegan a validated_data
UsuarioSerializerUpdate(fila, d) ==
    [fila EXCEPT !.email = IF "email" \in d.presentes THEN d.email ELSE @,
                 !.username = IF "username" \in d.presentes THEN d.username ELSE @]

\* Variante de la vista que compara el objeto con el solicitante y escribe
\* tambien el role de la peticion
ActualizarUsuarioEscribeRol(r, quien, pk, metodo, d) ==
    /\ Recibir(r)
    /\ LET nueva == Nueva("actualizar_usuario", pk, [quien |-> quien, metodo |-> metodo, cuerpo |-> d])
       IN  IF pk \notin DOMAIN usuarios
           THEN /\ sol' = [sol EXCEPT ![r] = Terminar(nueva, RespuestaDatos(404, <<>>))]
                /\ UNCHANGED usuarios
           ELSE IF ~(is_authenticated(quien) /\ (pk = quien \/ IsAdminUser(quien)))
           THEN /\ Denegar(r, nueva, quien)
                /\ UNCHANGED usuarios
           ELSE IF ~UsuarioValido(pk, d, metodo = "PATCH")
           THEN /\ sol' = [sol EXCEPT ![r] = Terminar(nueva, RespuestaDatos(400, <<>>))]
                /\ UNCHANGED usuarios
           ELSE /\ usuarios' = [usuarios EXCEPT ![pk] =
                        [UsuarioSerializerUpdate(@, d) EXCEPT
                            !.role = IF "role" \in d.presentes THEN d.role ELSE @]]
                /\ sol' = [sol EXCEPT ![r] = Terminar(nueva, RespuestaDatos(200, <<pk>>))]
    /\ UNCHANGED <<calidad, sensores, clientes, sesiones>>

\* PUT/PATCH /api1/usuarios/<pk>/editar/ (UsuarioUpdateView): get_object
\* (404, luego IsOwnerOrAdmin sobre la fila de Usuario), is_valid, save
ActualizarUsuario(r, quien, pk, metodo, d) ==
    /\ Recibir(r)
    /\ LET nueva == Nueva("actualizar_usuario", pk, [quien |-> quien, metodo |-> metodo, cuerpo |-> d])
       IN  IF pk \notin DOMAIN usuarios
           THEN /\ sol' = [sol EXCEPT ![r] = Terminar(nueva, RespuestaDatos(404, <<>>))]
                /\ UNCHANGED usuarios
           ELSE IF IsOwnerOrAdmin(quien, usuarios[pk]) = ErrorAtributo
           THEN /\ sol' = [sol EXCEPT ![r] = Terminar(nueva, RespuestaDatos(500, <<>>))]
                /\ UNCHANGED usuarios
           ELSE IF IsOwnerOrAdmin(quien, usuarios[pk]) = Denegado
           THEN /\ Denegar(r, nueva, quien)
                /\ UNCHANGED usuarios
           ELSE IF ~UsuarioValido(pk, d, metodo = "PATCH")
           THEN /\ sol' = [sol EXCEPT ![r] = Terminar(nueva, RespuestaDatos(400, <<>>))]
                /\ UNCHANGED usuarios
           ELSE /\ usuarios' = [usuarios EXCEPT ![pk] = UsuarioSerializerUpdate(@, d)]
                /\ sol' = [sol EXCEPT ![r] = Terminar(nueva, RespuestaDatos(200, <<pk>>))]
    /\ UNCHANGED <<calidad, sensores, clientes, sesiones>>

\* GET /api1/clientes/<pk>/ (ClienteDetailView): [IsOwnerClienteOnly | IsAdminUser]
VerCliente(r, quien, pk) ==
    /\ Recibir(r)
    /\ LET nueva == Nueva("ver_cliente", pk, [quien |-> quien, metodo |-> "GET", cuerpo |-> Nulo])
       IN  IF pk \notin DOMAIN clientes
           THEN sol' = [sol EXCEPT ![r] = Terminar(nueva, RespuestaDatos(404, <<>>))]
           ELSE IF ~PermisoCliente(quien, clientes[pk])
           THEN Denegar(r, nueva, quien)
           ELSE sol' = [sol EXCEPT ![r] = Terminar(nueva, RespuestaDatos(200, <<pk>>))]
    /\ UNCHANGED <<calidad, portal>>

\* ClienteSerializer.is_valid(): nombre_completo requerido (salvo PATCH) y
\* no vacio; direccion y telefono son opcionales
ClienteValido(d, parcial) ==
    /\ parcial \/ "nombre_completo" \in d.presentes
    /\ "nombre_completo" \in d.presentes => d.nombre_completo # ""

\* ClienteSerializer.update: usuario es de solo lectura
ClienteSerializerUpdate(fila, d) ==
    [fila EXCEPT !.nombre_completo =
        IF "nombre_completo" \in d.presentes THEN d.nombre_completo ELSE @]

\* PUT/PATCH /api1/clientes/<pk>/editar/ (ClienteUpdateView.update): el
\* payload es la peticion sin la clave "usuario"
ActualizarCliente(r, quien, pk, metodo, d) ==
    /\ Recibir(r)
    /\ LET nueva == Nueva("actualizar_cliente", pk, [quien |-> quien, metodo |-> metodo, cuerpo |-> d])
           payload == [d EXCEPT !.presentes = @ \ {"usuario"}]
       IN  IF pk \notin DOMAIN clientes
           THEN /\ sol' = [sol EXCEPT ![r] = Terminar(nueva, RespuestaDatos(404, <<>>))]
                /\ UNCHANGED clientes
           ELSE IF ~PermisoCliente(quien, clientes[pk])
           THEN /\ Denegar(r, nueva, quien)
                /\ UNCHANGED clientes
           ELSE IF ~ClienteValido(payload, metodo = "PATCH")
           THEN /\ sol' = [sol EXCEPT ![r] = Terminar(nueva, RespuestaDatos(400, <<>>))]
                /\ UNCHANGED clientes
           ELSE /\ clientes' = [clientes EXCEPT ![pk] = ClienteSerializerUpdate(@, payload)]
                /\ sol' = [sol EXCEPT ![r] = Terminar(nueva, RespuestaDatos(200, <<pk>>))]
    /\ UNCHANGED <<calidad, sensores, usuarios, sesiones>>

\* get_object_or_404(Cliente, usuario__id=user_id): id del cliente o 0
ClienteDeUsuario(user_id) ==
    IF \E k \in DOMAIN clientes : clientes[k].usuario = user_id
    THEN CHOOSE k \in DOMAIN clientes : clientes[k].usuario = user_id
    ELSE 0

\* GET /api1/clientes/user/<user_id>/ (ClienteDetailByUserView):
\* [IsAuthenticated, IsOwnerClienteOnly | IsAdminUser]; get_object esta
\* redefinido y no llama a check_object_permissions
VerClientePorUsuario(r, quien, user_id) ==
    /\ Recibir(r)
    /\ LET nueva == Nueva("ver_cliente_por_usuario", ClienteDeUsuario(user_id),
                          [quien |-> quien, metodo |-> "GET", cuerpo |-> Nulo])
       IN  IF ~IsAuthenticated(quien)
           THEN Denegar(r, nueva, quien)
           ELSE IF ClienteDeUsuario(user_id) = 0
           THEN sol' = [sol EXCEPT ![r] = Terminar(nueva, RespuestaDatos(404, <<>>))]
           ELSE sol' = [sol EXCEPT ![r] =
                    Terminar(nueva, RespuestaDatos(200, <<ClienteDeUsuario(user_id)>>))]
    /\ UNCHANGED <<calidad, portal>>

\* Cuerpos de registro con los que se puebla el sistema: una clienta, un
\* segundo usuario con cada rol, y ese usuario como cliente
DatosAccesoUsuario ==
    { DatosUsuario({"email", "username", "password", "role"}, "luis@agro", "luis", ClaveBuena, rol)
        : rol \in ROLE_CHOICES }

DatosAccesoCliente ==
    { [usuario |-> DatosUsuario({"email", "username", "password"}, "ana@agro", "ana", ClaveBuena, ""),
       nombre_completo |-> "Ana Ruiz"],
      [usuario |-> DatosUsuario({"email", "username", "password"}, "luis@agro", "luis", ClaveBuena, ""),
       nombre_completo |-> "Luis Paz"] }

\* Cuerpos de edicion de usuario: PUT completo que pide role admin y PATCH
\* que solo trae role
DatosEditarUsuario ==
    { <<"PUT", DatosUsuario({"email", "username", "role"}, "nuevo@agro", "nuevo", <<>>, ROLE_ADMIN)>>,
      <<"PATCH", DatosUsuario({"role"}, "", "", <<>>, ROLE_SUPERVISOR)>> }

\* Cuerpos de edicion de cliente: PUT con otro usuario enlazado y PATCH que
\* solo trae usuario
DatosEditarCliente ==
    { <<"PUT", [presentes |-> {"nombre_completo", "usuario"}, nombre_completo |-> "Otro Nombre", usuario |-> 2]>>,
      <<"PATCH", [presentes |-> {"usuario"}, nombre_completo |-> "", usuario |-> 2]>> }

NextAcceso ==
    \E r \in Solicitudes :
        \/ \E d \in DatosAccesoUsuario : RegistrarUsuario(r, d)
        \/ \E d \in DatosAccesoCliente : RegistrarCliente(r, d)
        \/ \E quien \in Solicitantes : ListarUsuarios(r, quien)
        \/ \E quien \in Solicitantes : ListarClientes(r, quien)
        \/ \E quien \in Solicitantes, pk \in 1..MaxUsuarios, e \in DatosEditarUsuario :
              ActualizarUsuario(r, quien, pk, e[1], e[2])
        \/ \E quien \in Solicitantes, pk \in 1..MaxUsuarios : VerCliente(r, quien, pk)
        \/ \E quien \in Solicitantes, pk \in 1..MaxUsuarios, e \in DatosEditarCliente :
              ActualizarCliente(r, quien, pk, e[1], e[2])
        \/ \E quien \in Solicitantes, pk \in 1..MaxUsuarios : VerClientePorUsuario(r, quien, pk)

SpecAcceso == Init /\ [][NextAcceso]_vars

----------------------------------------------------------------------------
(* Pasos observables de una peticion *)

\* En este paso la ranura r recibio una peticion nueva
Recibio(r) == sol'[r].num # sol[r].num

\* En este paso termino la peticion de la ranura r
Termino(r) == sol'[r].pc = "fin" /\ (sol[r].pc # "fin" \/ Recibio(r))

\* En este paso la peticion de r (registro o actualizacion) guardo su fila
Guardo(r) ==
    /\ Termino(r)
    /\ \/ sol'[r].op = "registrar" /\ sol'[r].resp.status = 201
       \/ sol'[r].op = "actualizar" /\ sol'[r].resp.status = 200

\* La instancia tal como llega a save(): los datos validados sobre la fila
\* por defecto (registro) o sobre la instancia cargada (actualizacion)
AntesDeSave(r) ==
    IF sol'[r].op = "registrar"
    THEN AplicarDatos(FilaPorDefecto, sol'[r].datos)
    ELSE AplicarDatos(sol[r].lote, sol'[r].datos)

----------------------------------------------------------------------------
(* C1 *)

DerivadoCorrecto(pre, post) ==
    /\ (pre.grano_bueno # None /\ pre.grano_defectuoso = None) =>
            /\ post.grano_bueno = pre.grano_bueno
            /\ LET resto == 100 - pre.humedad - pre.impurezas - pre.grano_bueno
               IN  post.grano_defectuoso = IF resto < 0 THEN 0 ELSE resto
    /\ (pre.grano_bueno = None /\ pre.grano_defectuoso # None) =>
            /\ post.grano_defectuoso = pre.grano_defectuoso
            /\ LET resto == 100 - pre.humedad - pre.impurezas - pre.grano_defectuoso
               IN  post.grano_bueno = IF resto < 0 THEN 0 ELSE resto

\* C1: en todo save de un lote al que le falta exactamente uno de
\* grano_bueno / grano_defectuoso, el que falta queda en
\* max(0, 100 - humedad - impurezas - el conocido) y el conocido no cambia.
C1_DerivaElFaltante ==
    [][\A r \in Solicitudes :
         Guardo(r) => DerivadoCorrecto(AntesDeSave(r), lotes'[sol'[r].pk])]_vars

\* Un registro guardado con grano_bueno dado, grano_defectuoso ausente y
\* humedad + impurezas + grano_bueno > 100: el derivado queda en el piso 0
C1_Testigo ==
    \E r \in Solicitudes :
        /\ sol[r].pc = "fin" /\ sol[r].op = "registrar" /\ sol[r].resp.status = 201
        /\ "grano_bueno" \in sol[r].datos.presentes
        /\ sol[r].datos.grano_bueno # None
        /\ "grano_defectuoso" \notin sol[r].datos.presentes
        /\ sol[r].datos.humedad + sol[r].datos.impurezas + sol[r].datos.grano_bueno > 100
        /\ lotes[sol[r].pk] # Ausente
        /\ lotes[sol[r].pk].grano_defectuoso = 0
        /\ lotes[sol[r].pk].grano_bueno = sol[r].datos.grano_bueno

----------------------------------------------------------------------------
(* C2 *)

\* Valor de un porcentaje tras mezclar la peticion con lo almacenado
Mezclado(r, campo) ==
    IF campo \in sol'[r].datos.presentes THEN sol'[r].datos[campo]
    ELSE IF sol'[r].op = "actualizar" THEN sol[r].lote[campo]
    ELSE None

SumaMezcladaExcede(r) ==
    /\ \A campo \in {"humedad", "impurezas", "grano_bueno", "grano_defectuoso"} :
            Mezclado(r, campo) # None
    /\ Mezclado(r, "humedad") + Mezclado(r, "impurezas")
         + Mezclado(r, "grano_bueno") + Mezclado(r, "grano_defectuoso") > 100

\* La peticion de r es un registro, o una actualizacion que ya cargo su lote
DecideGuardado(r) ==
    /\ Termino(r)
    /\ \/ sol'[r].op = "registrar"
       \/ sol'[r].op = "actualizar" /\ sol[r].pc = "guardar"

\* C2: todo registro o actualizacion cuyos cuatro porcentajes, mezclando la
\* peticion con lo almacenado, estan presentes y suman mas de 100 se rechaza
\* con 400 y deja la tabla de lotes como estaba.
C2_RechazaSumaMayorA100 ==
    [][\A r \in Solicitudes :
         (DecideGuardado(r) /\ SumaMezcladaExcede(r)) =>
            /\ sol'[r].resp.status = 400
            /\ lotes' = lotes
            /\ nextId' = nextId]_vars

\* Un PATCH rechazado que solo trae grano_bueno: la suma excede 100 por los
\* valores almacenados de los otros tres
C2_Testigo ==
    \E r \in Solicitudes :
        /\ sol[r].pc = "fin" /\ sol[r].op = "actualizar" /\ sol[r].resp.status = 400
        /\ sol[r].datos.presentes = {"grano_bueno"}
        /\ sol[r].datos.grano_bueno # None
        /\ lotes[sol[r].pk] # Ausente
        /\ lotes[sol[r].pk].grano_defectuoso # None
        /\ lotes[sol[r].pk].humedad + lotes[sol[r].pk].impurezas
             + lotes[sol[r].pk].grano_defectuoso <= 100
        /\ lotes[sol[r].pk].humedad + lotes[sol[r].pk].impurezas
             + lotes[sol[r].pk].grano_defectuoso + sol[r].datos.grano_bueno > 100

----------------------------------------------------------------------------
(* C3 *)

SumaDentroDe100(l) ==
    (None \notin {l.humedad, l.impurezas, l.grano_bueno, l.grano_defectuoso}) =>
        l.humedad + l.impurezas + l.grano_bueno + l.grano_defectuoso <= 100

\* C3: todo lote almacenado con los cuatro porcentajes presentes cumple
\* humedad + impurezas + grano_bueno + grano_defectuoso <= 100.
C3_SumaAlmacenadaNoExcede100 ==
    \A k \in DOMAIN lotes : lotes[k] # Ausente => SumaDentroDe100(lotes[k])

----------------------------------------------------------------------------
(* Pasos observables del envio del informe *)

\* En este paso actuo la peticion de la ranura r
Movio(r) == sol'[r] # sol[r]

DespuesDeEnviar == {"guardar_utils", "guardar_vista"}

\* En este paso termino una peticion de envio cuyo email.send() ya habia
\* terminado bien
TerminoTrasEnvio(r) == Termino(r) /\ sol[r].pc \in DespuesDeEnviar

SinCedula(c) == cedula(c) \in {SinAtributo, CedulaVacia}

OrdenEtapas == <<"generar", "derivar", "encriptar", "entregar">>

EsPrefijo(a, b) == Len(a) <= Len(b) /\ a = SubSeq(b, 1, Len(a))

EnviadoEn(tabla, k) == tabla[k] # Ausente /\ tabla[k].enviado

----------------------------------------------------------------------------
(* C4 *)

\* C4 tal como esta escrita: si el cliente tiene cedula y correo y el
\* transporte acepta el mensaje, la peticion responde 200 y el indicador
\* enviado persistido queda en verdadero.
C4_ExitoSiempreMarca ==
    [][\A r \in Solicitudes :
         TerminoTrasEnvio(r) =>
            /\ sol'[r].resp.status = 200
            /\ EnviadoEn(lotes', sol'[r].pk)]_vars

\* C4 enmendada: lo anterior vale mientras la fila del lote siga existiendo
\* cuando la peticion guarda el indicador; si otra peticion la borro antes,
\* el save lanza y la respuesta es 500 con el texto del DatabaseError.
C4_ExitoMarcaSiLaFilaExiste ==
    [][\A r \in Solicitudes :
         /\ (sol[r].pc = "guardar_utils" /\ Movio(r) /\ Existe(sol[r].pk)) =>
                /\ sol'[r].pc = "guardar_vista"
                /\ EnviadoEn(lotes', sol[r].pk)
         /\ (sol[r].pc = "guardar_vista" /\ Movio(r) /\ Existe(sol[r].pk)) =>
                /\ sol'[r].pc = "fin"
                /\ sol'[r].resp = Respuesta(200, MensajeExito, "")
                /\ EnviadoEn(lotes', sol[r].pk)
         /\ (TerminoTrasEnvio(r) /\ ~Existe(sol[r].pk)) =>
                sol'[r].resp = Respuesta(500, ErrorProcesar, ErrorSinFila)]_vars

\* Una peticion de envio respondio 200 tras un envio aceptado y el lote
\* tiene enviado en verdadero
C4_Testigo ==
    \E r \in Solicitudes :
        /\ sol[r].pc = "fin" /\ sol[r].op = "enviar" /\ sol[r].resp.status = 200
        /\ sol[r].mensaje # Nulo /\ sol[r].mensaje.entregado
        /\ EnviadoEn(lotes, sol[r].pk)
        /\ TieneCedula(lotes[sol[r].pk].cliente)
        /\ email(lotes[sol[r].pk].cliente) # ""

----------------------------------------------------------------------------
(* C5 *)

\* C5: una peticion de envio para un lote cuyo cliente no tiene cedula (sin
\* atributo o vacia) responde 400 sin empezar el flujo: nada se genera, se
\* encripta ni se envia, y la tabla queda como estaba.
C5_SinCedulaResponde400 ==
    [][\A r \in Solicitudes :
         (/\ Recibio(r)
          /\ sol'[r].op = "enviar"
          /\ Existe(sol'[r].pk)
          /\ SinCedula(lotes[sol'[r].pk].cliente)) =>
            /\ sol'[r].pc = "fin"
            /\ sol'[r].resp.status = 400
            /\ sol'[r].etapas = <<>>
            /\ sol'[r].pdf = Nulo /\ sol'[r].token = Nulo /\ sol'[r].mensaje = Nulo
            /\ lotes' = lotes
            /\ enviosOk' = enviosOk]_vars

\* Una peticion de envio rechazada con 400 para un lote cuyo cliente tiene
\* la cedula vacia
C5_Testigo ==
    \E r \in Solicitudes :
        /\ sol[r].pc = "fin" /\ sol[r].op = "enviar" /\ sol[r].resp.status = 400
        /\ sol[r].etapas = <<>>
        /\ lotes[sol[r].pk] # Ausente
        /\ cedula(lotes[sol[r].pk].cliente) = CedulaVacia
        /\ ~lotes[sol[r].pk].enviado

----------------------------------------------------------------------------
(* C6 *)

\* Numero de etapas iniciadas cuando la peticion falla en un punto dado
EtapasAlFallar(pc) ==
    CASE pc = "generar" -> 1
      [] pc = "encriptar" -> 2
      [] OTHER -> 4

\* C6: las etapas corren en el orden generar, derivar clave, encriptar,
\* entregar; una etapa posterior solo corre con el resultado de la anterior;
\* si una etapa falla la peticion termina ahi y no escribe el indicador.
C6_EtapasEnOrdenYAbortan ==
    [][\A r \in Solicitudes :
         /\ sol'[r].op = "enviar" => EsPrefijo(sol'[r].etapas, OrdenEtapas)
         /\ sol'[r].pc \in {"encriptar", "enviar"} \cup DespuesDeEnviar =>
                sol'[r].pdf # Nulo
         /\ sol'[r].pc \in {"enviar"} \cup DespuesDeEnviar =>
                /\ sol'[r].token # Nulo
                /\ sol'[r].token.claro = sol'[r].pdf
         /\ sol'[r].pc \in DespuesDeEnviar =>
                /\ sol'[r].etapas = OrdenEtapas
                /\ sol'[r].mensaje # Nulo
                /\ sol'[r].mensaje.entregado
         /\ (Termino(r) /\ sol[r].pc \in {"generar", "encriptar", "enviar", "guardar_utils"}) =>
                /\ sol'[r].resp.status = 500
                /\ Len(sol'[r].etapas) = EtapasAlFallar(sol[r].pc)
                /\ lotes' = lotes
                /\ enviosOk' = enviosOk
         /\ (Movio(r) /\ sol[r].pc \in {"generar", "encriptar", "enviar"}) =>
                lotes' = lotes]_vars

\* Una peticion de envio que fallo al generar el PDF: no corrio ninguna
\* etapa mas y el lote sigue sin enviar
C6_Testigo ==
    \E r \in Solicitudes :
        /\ sol[r].pc = "fin" /\ sol[r].op = "enviar"
        /\ sol[r].resp = Respuesta(500, ErrorProcesar, ErrorGenerar)
        /\ sol[r].etapas = <<"generar">>
        /\ sol[r].mensaje = Nulo
        /\ lotes[sol[r].pk] # Ausente
        /\ ~lotes[sol[r].pk].enviado
        /\ enviosOk[sol[r].pk] = 0

----------------------------------------------------------------------------
(* C7 *)

\* C7: un lote con enviado en verdadero tuvo al menos un envio aceptado por
\* el transporte, y solo un paso de una peticion de envio (nunca un
\* registro ni una actualizacion) pone el indicador en verdadero.
C7_SoloElEnvioMarcaEnviado ==
    [][/\ \A k \in DOMAIN lotes : EnviadoEn(lotes', k) => enviosOk'[k] >= 1
       /\ \A k \in DOMAIN lotes :
            (EnviadoEn(lotes', k) /\ ~EnviadoEn(lotes, k)) =>
                \E r \in Solicitudes :
                    /\ Movio(r)
                    /\ sol[r].pc \in DespuesDeEnviar
                    /\ sol[r].pk = k]_vars

\* La primera mitad de C7, que el codigo si cumple
C7_EnviadoImplicaEnvioAceptado ==
    \A k \in DOMAIN lotes : EnviadoEn(lotes, k) => enviosOk[k] >= 1

----------------------------------------------------------------------------
(* C8 *)

\* C8: toda peticion de envio que paso la comprobacion de la cedula y en la
\* que generar, encriptar o entregar lanza una excepcion termina con 500,
\* el mensaje de error y, en detalle, el texto de esa excepcion; solo
\* responde 200 la peticion cuyo ultimo save se hizo sobre una fila que
\* existe.
C8_FalloResponde500ConDetalle ==
    [][\A r \in Solicitudes :
         /\ (Termino(r) /\ sol[r].pc = "generar") =>
                sol'[r].resp = Respuesta(500, ErrorProcesar, ErrorGenerar)
         /\ (Termino(r) /\ sol[r].pc = "encriptar") =>
                sol'[r].resp = Respuesta(500, ErrorProcesar, ErrorCedula)
         /\ (Termino(r) /\ sol[r].pc = "enviar") =>
                /\ sol'[r].resp.status = 500
                /\ sol'[r].resp.texto = ErrorProcesar
                /\ sol'[r].resp.detalle \in {ErrorSinCorreo, ErrorPlantilla, ErrorTransporte}
                /\ (sol'[r].resp.detalle = ErrorSinCorreo) <=> (email(sol[r].lote.cliente) = "")
                /\ (sol'[r].resp.detalle = ErrorTransporte) <=> (sol'[r].mensaje # Nulo)
         /\ (TerminoTrasEnvio(r) /\ ~Existe(sol[r].pk)) =>
                sol'[r].resp = Respuesta(500, ErrorProcesar, ErrorSinFila)
         /\ (Termino(r) /\ sol'[r].op = "enviar" /\ sol'[r].resp.status = 200) =>
                /\ sol[r].pc = "guardar_vista"
                /\ Existe(sol[r].pk)]_vars

\* Una peticion de envio en la que el transporte rechazo el mensaje: 500 con
\* el texto de la excepcion y el lote sin marcar
C8_Testigo ==
    \E r \in Solicitudes :
        /\ sol[r].pc = "fin" /\ sol[r].op = "enviar"
        /\ sol[r].resp = Respuesta(500, ErrorProcesar, ErrorTransporte)
        /\ sol[r].mensaje # Nulo /\ ~sol[r].mensaje.entregado
        /\ lotes[sol[r].pk] # Ausente
        /\ ~lotes[sol[r].pk].enviado

----------------------------------------------------------------------------
(* C9 *)

\* Cliente del lote de la peticion que termina en este paso
ClienteDe(r) ==
    IF Recibio(r) THEN lotes[sol'[r].pk].cliente ELSE sol[r].lote.cliente

\* En este paso termino una peticion de envio para un lote que existe y cuyo
\* cliente no tiene correo
TerminoEnvioSinCorreo(r) ==
    /\ Termino(r)
    /\ sol'[r].op = "enviar"
    /\ (Recibio(r) => Existe(sol'[r].pk))
    /\ email(ClienteDe(r)) = ""

\* C9 tal como esta escrita: si el cliente no tiene correo la respuesta es
\* un error de cliente, no se genera el documento, no se envia nada y el
\* indicador no cambia.
C9_SinCorreoEsErrorDeCliente ==
    [][\A r \in Solicitudes :
         TerminoEnvioSinCorreo(r) =>
            /\ sol'[r].resp.status = 400
            /\ sol'[r].etapas = <<>>
            /\ sol'[r].mensaje = Nulo
            /\ lotes' = lotes]_vars

\* C9 enmendada: si el cliente no tiene correo no se entrega nada al
\* transporte y el indicador no cambia; la respuesta es 400 sin generar el
\* documento solo cuando ademas falta la cedula; con cedula el documento se
\* genera y se encripta y la respuesta es 500 (con el texto del error de
\* direccion cuando generar no fallo antes).
C9_SinCorreoNoEnviaNiMarca ==
    [][\A r \in Solicitudes :
         /\ TerminoEnvioSinCorreo(r) =>
                /\ sol'[r].mensaje = Nulo
                /\ lotes' = lotes
                /\ enviosOk' = enviosOk
                /\ IF SinCedula(ClienteDe(r))
                   THEN sol'[r].resp.status = 400 /\ sol'[r].etapas = <<>>
                   ELSE /\ sol'[r].resp.status = 500
                        /\ sol'[r].etapas # <<>>
                        /\ sol'[r].etapas[1] = "generar"
                        /\ sol'[r].resp.detalle \in {ErrorGenerar, ErrorSinCorreo}
                        /\ (sol'[r].resp.detalle = ErrorSinCorreo) =>
                                sol'[r].etapas = OrdenEtapas
         /\ sol'[r].pc \in DespuesDeEnviar => email(sol'[r].lote.cliente) # ""]_vars

\* Cliente con cedula y sin correo: el documento se genero y se encripto y
\* la peticion termino con 500 por la direccion que falta
C9_Testigo ==
    \E r \in Solicitudes :
        /\ sol[r].pc = "fin" /\ sol[r].op = "enviar"
        /\ sol[r].resp = Respuesta(500, ErrorProcesar, ErrorSinCorreo)
        /\ sol[r].etapas = OrdenEtapas
        /\ sol[r].mensaje = Nulo
        /\ lotes[sol[r].pk] # Ausente
        /\ email(lotes[sol[r].pk].cliente) = ""
        /\ TieneCedula(lotes[sol[r].pk].cliente)
        /\ ~lotes[sol[r].pk].enviado

----------------------------------------------------------------------------
(* C10 *)

\* El transporte acepta el mensaje de la peticion r
EntregaExitosa(r) == EnviarCorreo(r) /\ sol'[r].pc = "guardar_utils"

\* Hay otra peticion de envio en curso para el mismo lote
OtroEnvioEnCurso(r, pk) ==
    \E q \in Solicitudes :
        /\ q # r
        /\ sol[q].op = "enviar"
        /\ sol[q].pc \notin {"libre", "fin"}
        /\ sol[q].pk = pk

\* C10: dos peticiones de envio del mismo lote no se coordinan.  Una segunda
\* peticion entra al flujo aunque haya otra en curso para ese lote, y una
\* peticion que llego a la entrega puede transmitir sea cual sea el valor de
\* enviado y lo que hagan las demas (hasta el tope MaxEnvios del contador).
C10_EnviosSinCoordinar ==
    /\ \A r \in Solicitudes, pk \in DOMAIN lotes :
         (/\ Disponible(r)
          /\ \A q \in Solicitudes : q < r => ~Disponible(q)
          /\ iniciadas < MaxPeticiones
          /\ OtroEnvioEnCurso(r, pk)
          /\ Existe(pk)
          /\ ~SinCedula(lotes[pk].cliente)) =>
            ENABLED (EnviarInicio(r, pk) /\ sol'[r].pc = "generar")
    /\ \A r \in Solicitudes :
         (/\ sol[r].pc = "enviar"
          /\ email(sol[r].lote.cliente) # ""
          /\ enviosOk[sol[r].pk] < MaxEnvios) =>
            ENABLED EntregaExitosa(r)

\* Las dos peticiones transmitieron con exito el informe del mismo lote
\* antes de que ninguna guardara el indicador
C10_Testigo ==
    /\ sol[1].pc = "guardar_utils"
    /\ sol[2].pc = "guardar_utils"
    /\ sol[1].pk = sol[2].pk
    /\ sol[1].mensaje.entregado /\ sol[2].mensaje.entregado
    /\ enviosOk[sol[1].pk] = 2
    /\ ~EnviadoEn(lotes, sol[1].pk)

----------------------------------------------------------------------------
(* C11 *)

\* C11: el envio no depende del indicador enviado.  Una peticion para un
\* lote ya marcado entra al flujo igual que la primera; toda peticion que
\* responde 200 entrego un mensaje propio, con el documento generado y
\* encriptado en esa misma peticion, y cada entrega aceptada suma
\* exactamente un envio al lote, de modo que n peticiones con exito son n
\* envios.
C11_ReenviaSinMirarEnviado ==
    [][\A r \in Solicitudes :
         /\ (/\ Recibio(r)
             /\ sol'[r].op = "enviar"
             /\ Existe(sol'[r].pk)
             /\ TieneCedula(lotes[sol'[r].pk].cliente)) =>
                /\ sol'[r].pc = "generar"
                /\ sol'[r].lote = lotes[sol'[r].pk]
         /\ (sol[r].pc = "enviar" /\ sol'[r].pc = "guardar_utils") =>
                /\ enviosOk' = [enviosOk EXCEPT ![sol[r].pk] = @ + 1]
                /\ sol'[r].mensaje.contenido.claro = generar_pdf_lote(sol[r].lote)
                /\ sol'[r].mensaje.contenido.iv = sol[r].num
         /\ ~(sol[r].pc = "enviar" /\ Movio(r)) =>
                (Movio(r) => enviosOk' = enviosOk)
         /\ (Termino(r) /\ sol'[r].op = "enviar" /\ sol'[r].resp.status = 200) =>
                /\ sol'[r].etapas = OrdenEtapas
                /\ sol'[r].mensaje # Nulo
                /\ sol'[r].mensaje.entregado]_vars

\* Una peticion que cargo el lote con enviado ya en verdadero volvio a
\* generar, encriptar y entregar: es el segundo envio aceptado de ese lote
C11_Testigo ==
    \E r \in Solicitudes :
        /\ sol[r].pc = "guardar_utils"
        /\ sol[r].lote.enviado
        /\ sol[r].etapas = OrdenEtapas
        /\ sol[r].mensaje.entregado
        /\ sol[r].mensaje.contenido.iv = sol[r].num
        /\ enviosOk[sol[r].pk] = 2
        /\ \A q \in Solicitudes : q # r => sol[q].pc \in {"libre", "fin"}

----------------------------------------------------------------------------
(* C12 *)

\* La llamada de la ranura r termino devolviendo (token, clave)
Devolvio(r) ==
    /\ sol[r].op = "encriptar"
    /\ sol[r].pc = "fin"
    /\ "clave" \in DOMAIN sol[r].resp

----------------------------------------------------------------------------
(* C13 *)

----------------------------------------------------------------------------
(* C14 *)

\* La llamada de la ranura r termino
TerminoLlamada(r) == sol[r].op = "encriptar" /\ sol[r].pc = "fin"

\* C14: con la cedula vacia o ausente la llamada lanza ValueError y no
\* devuelve ni token ni clave; solo devuelve valores con cedula no vacia.
C14_CedulaVaciaLanza ==
    \A r \in Solicitudes :
        TerminoLlamada(r) =>
            IF sol[r].datos.cedula \in {SinAtributo, CedulaVacia}
            THEN sol[r].resp = Lanza(ErrorCedula)
            ELSE /\ DOMAIN sol[r].resp = {"token", "clave"}
                 /\ sol[r].resp.token.claro = sol[r].datos.pdf_bytes

\* Una llamada con la cedula vacia y otra con la cedula ausente, ambas
\* terminadas con ValueError
C14_Testigo ==
    \E r, q \in Solicitudes :
        /\ TerminoLlamada(r) /\ TerminoLlamada(q)
        /\ sol[r].datos.cedula = CedulaVacia
        /\ sol[q].datos.cedula = SinAtributo
        /\ sol[r].resp = Lanza(ErrorCedula)
        /\ sol[q].resp = Lanza(ErrorCedula)

----------------------------------------------------------------------------
(* C15 *)

\* La tabla cambio, como mucho, en la columna enviado de la fila k
SoloCambiaEnviado(k) ==
    /\ \A j \in DOMAIN lotes : j # k => lotes'[j] = lotes[j]
    /\ \/ lotes'[k] = lotes[k]
       \/ /\ lotes[k] # Ausente
          /\ lotes'[k] = [lotes[k] EXCEPT !.enviado = TRUE]

\* C15: ningun paso de una peticion de envio cambia en la base de datos otra
\* cosa que la columna enviado de su lote: los demas campos de la fila
\* quedan como esten en la tabla en ese momento (no como los cargo la
\* peticion) y las demas filas no se tocan.
C15_EnvioSoloEscribeEnviado ==
    [][\A r \in Solicitudes :
         (Movio(r) /\ sol'[r].op = "enviar") =>
            /\ SoloCambiaEnviado(sol'[r].pk)
            /\ nextId' = nextId
            /\ (sol[r].pc \in DespuesDeEnviar /\ Existe(sol[r].pk)) =>
                    lotes'[sol[r].pk] = [lotes[sol[r].pk] EXCEPT !.enviado = TRUE]]_vars

\* La peticion de envio guardo el indicador sobre una fila que una
\* actualizacion habia cambiado despues de que la peticion la cargara: la
\* fila conserva las observaciones nuevas
C15_Testigo ==
    \E r \in Solicitudes :
        /\ sol[r].pc = "guardar_vista"
        /\ sol[r].lote.observaciones = ""
        /\ lotes[sol[r].pk] # Ausente
        /\ lotes[sol[r].pk].observaciones = "rev"
        /\ lotes[sol[r].pk].enviado

----------------------------------------------------------------------------
(* C16 *)

\* En este paso la peticion r entrego un mensaje al transporte
IntentoEnvio(r) == sol[r].pc = "enviar" /\ sol'[r].mensaje # Nulo

\* C16: en todo intento de envio el adjunto se llama informe_<codigo>.pdf
\* con el codigo del lote de la peticion y su contenido es el token que esa
\* misma peticion produjo a partir del documento de ese lote con la clave
\* de la cedula de su cliente; el documento sin encriptar nunca llega al
\* transporte.
C16_AdjuntoEsElTokenDeLaPeticion ==
    [][\A r \in Solicitudes :
         /\ IntentoEnvio(r) =>
              LET l == sol[r].lote
                  m == sol'[r].mensaje
                  key == DerivarClave(cedula(l.cliente))
              IN  /\ m.nombre = <<"informe_">> \o l.codigo_lote \o <<".pdf">>
                  /\ m.pk = sol[r].pk
                  /\ m.para = email(l.cliente)
                  /\ m.contenido = FernetEncrypt(key, generar_pdf_lote(l), sol[r].num)
                  /\ m.contenido = sol[r].token
                  /\ m.contenido # generar_pdf_lote(l)
                  /\ FernetDecrypt(key, m.contenido) = generar_pdf_lote(l)
         /\ (sol[r].mensaje # Nulo /\ sol'[r].num = sol[r].num) =>
                /\ sol'[r].mensaje.contenido = sol[r].mensaje.contenido
                /\ sol'[r].mensaje.nombre = sol[r].mensaje.nombre
         /\ (sol[r].pc # "enviar" /\ sol[r].mensaje = Nulo) => sol'[r].mensaje = Nulo]_vars

\* Un mensaje aceptado por el transporte: adjunto informe_L1.pdf con el
\* token de la peticion, cifrado con la clave de la cedula del cliente 1
C16_Testigo ==
    \E r \in Solicitudes :
        /\ sol[r].op = "enviar"
        /\ sol[r].mensaje # Nulo
        /\ sol[r].mensaje.entregado
        /\ sol[r].mensaje.nombre = <<"informe_", "L", "1", ".pdf">>
        /\ sol[r].mensaje.contenido.clave = DerivarClave(Ced123)
        /\ sol[r].mensaje.contenido.claro.titulo = CodigoL1
        /\ sol[r].mensaje.contenido.iv = sol[r].num

----------------------------------------------------------------------------
(* C17 *)

\* En este paso se recibio el POST de test_crear_sensor_valido de un usuario
\* autenticado, con un nombre que no esta en uso
PostDeLaPrueba(r) ==
    /\ Recibio(r)
    /\ sol'[r].op = "crear_sensor"
    /\ sol'[r].resp.status \notin NoAutenticado
    /\ sol'[r].datos.presentes = {"nombre", "tipo", "ubicacion", "activo"}
    /\ sol'[r].datos.tipo = LUZ
    /\ ~NombreSensorEnUso(sol'[r].datos.nombre)

\* C17: el POST de la prueba (nombre libre, tipo 'LUZ', ubicacion, activo) de
\* un usuario autenticado responde 201 y deja un sensor mas en la tabla.
C17_PostDeLaPruebaCrea ==
    [][\A r \in Solicitudes :
         PostDeLaPrueba(r) =>
            /\ sol'[r].resp.status = 201
            /\ Len(sensores') = Len(sensores) + 1]_vars

----------------------------------------------------------------------------
(* C18 *)

\* En este paso se respondio un GET de la lista a un usuario autenticado
RespondioLista(r) ==
    /\ Recibio(r)
    /\ sol'[r].op = "listar_sensores"
    /\ sol'[r].resp.status \notin NoAutenticado

IdsDe(data) == { data[j].id : j \in 1..Len(data) }

\* Sensores que la consulta debe devolver segun sus parametros
Esperados(f) ==
    { k \in DOMAIN sensores :
        /\ f.tipo # <<>> => Lower(sensores[k].tipo) = Lower(f.tipo)
        /\ f.activo = "true" => sensores[k].activo }

\* C18: el GET de la lista de un usuario autenticado responde 200 con
\* exactamente los sensores guardados que cumplen los filtros, cada uno una
\* vez: todos si no hay filtro, y con ?tipo=X los de tipo igual a X sin
\* distinguir mayusculas, esten activos o no.
C18_ListaExactaSegunFiltros ==
    [][\A r \in Solicitudes :
         RespondioLista(r) =>
            LET f == sol'[r].datos
                data == sol'[r].resp.data
            IN  /\ sol'[r].resp.status = 200
                /\ IdsDe(data) = Esperados(f)
                /\ Len(data) = Cardinality(Esperados(f))
                /\ \A j \in 1..Len(data) :
                        /\ data[j].nombre = sensores[data[j].id].nombre
                        /\ data[j].tipo = sensores[data[j].id].tipo
                /\ (f.tipo = <<>> /\ f.activo = "") => IdsDe(data) = DOMAIN sensores
                /\ sensores' = sensores]_vars

\* Con ?tipo=hum la respuesta trae solo el sensor de tipo 'HUM', que esta
\* inactivo, habiendo otro sensor guardado
C18_Testigo ==
    \E r \in Solicitudes :
        /\ sol[r].pc = "fin" /\ sol[r].op = "listar_sensores"
        /\ sol[r].datos = [tipo |-> <<"h","u","m">>, activo |-> ""]
        /\ sol[r].resp.status = 200
        /\ Len(sol[r].resp.data) = 1
        /\ sol[r].resp.data[1].nombre = "Sensor Humedad"
        /\ sol[r].resp.data[1].tipo = HUM
        /\ ~sol[r].resp.data[1].activo
        /\ Len(sensores) >= 2

----------------------------------------------------------------------------
(* C19 *)

\* En este paso se respondio un GET del panel
RespondioPanel(r) ==
    /\ Recibio(r)
    /\ sol'[r].op = "get_html"
    /\ sol'[r].datos.url = UrlPanel

----------------------------------------------------------------------------
(* C20 *)

\* C20: ningun usuario creado por los registros publicos (usuario-create y
\* cliente-create) queda guardado con el rol admin, traiga la peticion el
\* role que traiga.
C20_RegistroNuncaCreaAdmin ==
    \A k \in DOMAIN usuarios : usuarios[k].role # ROLE_ADMIN

----------------------------------------------------------------------------
(* C21 *)

\* La peticion de la ranura r termino y era de una de las operaciones ops
TerminoOp(r, ops) == sol[r].pc = "fin" /\ sol[r].op \in ops

\* C21: las listas de usuarios (GET /usuarios/) y de clientes (GET
\* /clientes/) solo responden a administradores o supervisores: toda
\* peticion de lista respondida con 200 la hizo un usuario autenticado con
\* rol admin o supervisor; el anonimo y el rol cliente quedan denegados.
C21_ListasSoloAdminOSupervisor ==
    \A r \in Solicitudes :
        (TerminoOp(r, {"listar_usuarios", "listar_clientes"}) /\ sol[r].resp.status = 200) =>
            /\ is_authenticated(sol[r].datos.quien)
            /\ usuarios[sol[r].datos.quien].role \in {ROLE_ADMIN, ROLE_SUPERVISOR}

----------------------------------------------------------------------------
(* C22 *)

\* C22: el rol de un usuario no se puede modificar por el endpoint de
\* edicion de usuarios: en todo paso que atiende un PUT o PATCH de
\* UsuarioUpdateView, traiga el role que traiga la peticion, el role
\* guardado de cada usuario queda igual que antes (y no aparecen ni
\* desaparecen usuarios).
C22_EdicionNoCambiaRol ==
    [][\A r \in Solicitudes :
          (Recibio(r) /\ sol'[r].op = "actualizar_usuario") =>
              /\ DOMAIN usuarios' = DOMAIN usuarios
              /\ \A k \in DOMAIN usuarios : usuarios'[k].role = usuarios[k].role]_vars

\* Un usuario autenticado pidio editar su propia fila con un role distinto
\* del guardado y la peticion termino
C22_Testigo ==
    \E r \in Solicitudes :
        /\ TerminoOp(r, {"actualizar_usuario"})
        /\ sol[r].pk \in DOMAIN usuarios
        /\ sol[r].datos.quien = sol[r].pk
        /\ "role" \in sol[r].datos.cuerpo.presentes
        /\ sol[r].datos.cuerpo.role # usuarios[sol[r].pk].role

----------------------------------------------------------------------------
(* C23 *)

\* El solicitante de la peticion terminada en r es el usuario enlazado al
\* cliente que pidio, o tiene rol admin
DuenoOAdmin(r) ==
    /\ is_authenticated(sol[r].datos.quien)
    /\ \/ clientes[sol[r].pk].usuario = sol[r].datos.quien
       \/ usuarios[sol[r].datos.quien].role = ROLE_ADMIN

\* C23: el acceso cruzado entre clientes esta bloqueado: toda peticion de
\* detalle o de edicion sobre una fila de Cliente que se responde con 200
\* la hizo el usuario enlazado a esa fila o un usuario con rol admin;
\* cualquier otro autenticado y el anonimo quedan denegados.
C23_SinAccesoCruzado ==
    \A r \in Solicitudes :
        (/\ TerminoOp(r, {"ver_cliente", "actualizar_cliente", "ver_cliente_por_usuario"})
         /\ sol[r].resp.status = 200) => DuenoOAdmin(r)

\* Parte de C23 que si se cumple: por ClienteDetailView y ClienteUpdateView
\* solo pasan el dueno y el admin
C23_DetalleYEdicionSoloDuenoOAdmin ==
    \A r \in Solicitudes :
        (/\ TerminoOp(r, {"ver_cliente", "actualizar_cliente"})
         /\ sol[r].resp.status = 200) => DuenoOAdmin(r)

\* Parte de C23 que si se cumple: una edicion de cliente nunca cambia el
\* usuario enlazado, y una edicion que no responde 200 no cambia la fila
C23_EdicionNoCambiaElEnlace ==
    [][\A r \in Solicitudes :
          (Recibio(r) /\ sol'[r].op = "actualizar_cliente") =>
              /\ DOMAIN clientes' = DOMAIN clientes
              /\ \A k \in DOMAIN clientes : clientes'[k].usuario = clientes[k].usuario
              /\ sol'[r].resp.status # 200 => clientes' = clientes]_vars

----------------------------------------------------------------------------
(* C24 *)

\* C24: una vez que el indicador enviado guardado de un lote es verdadero,
\* sigue verdadero hasta que el lote se elimina, con cualquier intercalado
\* de actualizaciones y envios sobre el mismo lote: ningun paso deja en
\* falso el indicador de una fila que lo tenia en verdadero; en particular
\* una actualizacion que cargo el lote antes de que un envio concurrente lo
\* marcara no lo devuelve a falso al guardar.
C24_EnviadoNoVuelveAFalso ==
    [][\A k \in DOMAIN lotes :
          EnviadoEn(lotes, k) => (lotes'[k] = Ausente \/ lotes'[k].enviado)]_vars

----------------------------------------------------------------------------
(* C25 *)

\* Normalizacion completa de un codigo de lote tal como llega en la peticion
CodigoNormal(codigo) == validate_codigo_lote(Strip(codigo))

\* Todo codigo guardado es igual a su normalizacion y no hay dos filas con
\* el mismo codigo
CodigosNormalizadosYUnicos(tabla) ==
    /\ \A k \in DOMAIN tabla :
          tabla[k] # Ausente => tabla[k].codigo_lote = CodigoNormal(tabla[k].codigo_lote)
    /\ \A k, j \in DOMAIN tabla :
          (k # j /\ tabla[k] # Ausente /\ tabla[j] # Ausente) =>
              tabla[k].codigo_lote # tabla[j].codigo_lote

\* La normalizacion es idempotente sobre los codigos de las peticiones
NormalizacionIdempotente ==
    \A d \in DatosRegistro \cup DatosActualizar :
        CodigoNormal(CodigoNormal(d.codigo_lote)) = CodigoNormal(d.codigo_lote)

\* En este paso la ranura r atendio un registro cuyo codigo, normalizado, es
\* el de un lote que ya existe
RegistroConCodigoRepetido(r) ==
    /\ Recibio(r)
    /\ sol'[r].op = "registrar"
    /\ "codigo_lote" \in sol'[r].datos.presentes
    /\ CodigoEnUso(lotes, CodigoNormal(sol'[r].datos.codigo_lote), 0)

\* C25: todo lote guardado por registro o actualizacion tiene un
\* codigo_lote igual a su normalizacion (sin espacios alrededor, en
\* mayusculas), la normalizacion es idempotente, nunca hay dos lotes
\* guardados con el mismo codigo, y un registro cuyo codigo se normaliza al
\* de un lote existente (por ejemplo, distinto solo en mayusculas) se
\* rechaza con un error de validacion 400 y no crea ningun lote.
C25_CodigoNormalizadoUnicoYRechazo400 ==
    [][/\ CodigosNormalizadosYUnicos(lotes')
       /\ NormalizacionIdempotente
       /\ \A r \in Solicitudes :
            RegistroConCodigoRepetido(r) =>
                /\ sol'[r].resp.status = 400
                /\ lotes' = lotes]_vars

\* Parte de C25 que si se cumple: codigos normalizados y unicos,
\* normalizacion idempotente, y el registro repetido no crea ningun lote
C25_CodigosNormalizadosUnicosSinLoteNuevo ==
    [][/\ CodigosNormalizadosYUnicos(lotes')
       /\ NormalizacionIdempotente
       /\ \A r \in Solicitudes :
            RegistroConCodigoRepetido(r) =>
                /\ sol'[r].resp.status \in {400, 500}
                /\ lotes' = lotes]_vars

====
